---- MODULE Spec2Model ----
(***************************************************************************)
(* The news ingestion cycle of the conflict monitor: runNewsCycle and       *)
(* processAlert (jobs/newsCron.js), the tension engine                      *)
(* (utils/tensionCalc.js), the classification and translation gateway       *)
(* (services/claude.js), the notification channel (services/telegram.js),   *)
(* the route GET /api/tension/current (routes/tension.js) and the tables of *)
(* schema.sql they read and write.                                          *)
(*                                                                          *)
(* Numbers.  A tension value or delta is an integer number of hundredths    *)
(* (75.00 is 7500); an impact score is an integer number of tenths (8.5 is  *)
(* 85).  A JavaScript number that may be NaN is a sequence: <<v>> is the    *)
(* number v and <<>> is NaN.  Arithmetic is exact decimal arithmetic with   *)
(* Math.round's round-half-up; binary floating point error is not modelled. *)
(*                                                                          *)
(* Await points.  runNewsCycle is an async function on a single-threaded    *)
(* event loop: the code between two awaits runs without interleaving, so    *)
(* each action below is one await resolving plus the synchronous code that  *)
(* follows it, up to the next await.                                        *)
(***************************************************************************)
EXTENDS Integers, Sequences, FiniteSets, TLC

VARIABLES
  isRunning,        \* newsCron.js:11, one flag per process
  proc,             \* the locals and position of the invocation in flight
  news_events,      \* table news_events, rows in insertion order
  tension_history,  \* table tension_history, values in insertion order
  alerts,           \* table alerts, rows in insertion order
  sent,             \* messages handed to the Telegram API, in order
  env,              \* process.env: which Telegram variables are set
  gateway,          \* the replies the external services give in this run
  cyclesLeft,       \* accepted invocations the model still allows
  dropped,          \* triggers dropped by the guard so far
  meter,            \* per process: what the current or last cycle did
  log,              \* the error log entries that carry an article URL
  response,         \* the last reply of GET /api/tension/current
  stripe_events,    \* the stripe_events table: its rows, keyed by id
  users,            \* the users table: the quota columns of each user
  requests,         \* HTTP requests in flight: position and locals of each
  now,              \* the clock, in units of twelve hours
  handled,          \* per Stripe event: completed runs of handleStripeEvent
  accepted          \* per user: analyses allowed since the last reset

vars == <<isRunning, proc, news_events, tension_history, alerts, sent, env,
          gateway, cyclesLeft, dropped, meter, log, response,
          stripe_events, users, requests, now, handled, accepted>>

web == <<stripe_events, users, requests, now, handled, accepted>>

store == <<news_events, tension_history, alerts, sent>>

(***************************************************************************)
(* Bounds of the model.                                                     *)
(***************************************************************************)
NumUrls == 2
NumKeywords == 2
MaxDecay == 1
MaxCycles == 2
MaxDropped == 1

Urls == 1..NumUrls
ProcIds == {1}

(***************************************************************************)
(* JavaScript numbers.                                                      *)
(***************************************************************************)
NaN == <<>>
Num(v) == <<v>>
IsNaN(x) == x = <<>>
Val(x) == x[1]

\* Math.round(n / d) for d > 0: the nearest integer, halves towards +infinity.
RoundDiv(n, d) == (2 * n + d) \div (2 * d)

Min(a, b) == IF a <= b THEN a ELSE b
Max(a, b) == IF a >= b THEN a ELSE b

(***************************************************************************)
(* Strings: String.prototype.toLowerCase and String.prototype.includes.     *)
(* The model's texts are ASCII.                                             *)
(***************************************************************************)
UpperLetters == "ABCDEFGHIJKLMNOPQRSTUVWXYZ"
LowerLetters == "abcdefghijklmnopqrstuvwxyz"

LowerChar(c) ==
  IF \E i \in 1..26 : SubSeq(UpperLetters, i, i) = c
  THEN LET i == CHOOSE j \in 1..26 : SubSeq(UpperLetters, j, j) = c
       IN  SubSeq(LowerLetters, i, i)
  ELSE c

\* the characters of s from position i on, each one lowered
RECURSIVE toLowerCaseFrom(_, _)
toLowerCaseFrom(s, i) ==
  IF i > Len(s) THEN ""
  ELSE LowerChar(SubSeq(s, i, i)) \o toLowerCaseFrom(s, i + 1)

toLowerCase(s) == toLowerCaseFrom(s, 1)

includes(text, kw) ==
  \E i \in 1..(Len(text) - Len(kw) + 1) : SubSeq(text, i, i + Len(kw) - 1) = kw

(***************************************************************************)
(* utils/tensionCalc.js                                                     *)
(***************************************************************************)
Categories == {"military", "nuclear", "diplomatic", "economic", "cyber", "other"}

\* CATEGORY_SCORES[category] || 1
CATEGORY_SCORES(category) ==
  CASE category = "military"   -> 8
    [] category = "nuclear"    -> 6
    [] category = "economic"   -> 5
    [] category = "cyber"      -> 4
    [] category = "diplomatic" -> 3
    [] OTHER                   -> 1

\* The ASCII entries of the list; no ASCII title contains one of the others.
CRITICAL_KEYWORDS ==
  {"strike", "attack", "missile", "launched", "fired", "bomb", "retaliation",
   "war", "invasion", "nuclear weapon", "warhead", "ataque", "guerra", "bomba"}

DEESCALATION_KEYWORDS ==
  {"negotiation", "agreement", "deal", "ceasefire", "diplomacy", "talks",
   "peace", "accord", "dialogue", "acordo", "cessar-fogo", "diplomacia", "paz"}

\* The ASCII entries of the list inside shouldTriggerAlert.
ALERT_KEYWORDS ==
  {"strike", "missile", "retaliation", "attack", "nuclear weapon",
   "enrichment above 80", "warship", "blockade", "explosion", "ataque",
   "bloqueio"}

\* A delta in which a de-escalation keyword replaces the high-tension
\* multiplier instead of composing with it.
calculateTensionDelta_Exclusive(category, aiScore, title) ==
  IF IsNaN(aiScore) THEN NaN
  ELSE
    LET titleLower == toLowerCase(title)
        delta == CATEGORY_SCORES(category) * (50 + Val(aiScore))
        hasCritical == \E kw \in CRITICAL_KEYWORDS : includes(titleLower, kw)
        hasDeescalation == \E kw \in DEESCALATION_KEYWORDS : includes(titleLower, kw)
    IN  IF hasDeescalation THEN Num(RoundDiv(delta * (-5), 10))
        ELSE IF hasCritical THEN Num(RoundDiv(delta * 13, 10))
        ELSE Num(delta)

\* aiScore is <<tenths>> or NaN; the result is <<hundredths>> or NaN.
calculateTensionDelta(category, aiScore, title) ==
  IF IsNaN(aiScore) THEN NaN
  ELSE
    LET titleLower      == toLowerCase(title)
        baseScore       == CATEGORY_SCORES(category)
        \* baseScore * (0.5 + aiScore / 10), in hundredths
        delta           == baseScore * (50 + Val(aiScore))
        hasCritical     == \E kw \in CRITICAL_KEYWORDS : includes(titleLower, kw)
        hasDeescalation == \E kw \in DEESCALATION_KEYWORDS : includes(titleLower, kw)
        c               == IF hasCritical THEN 13 ELSE 10
        d               == IF hasDeescalation THEN -5 ELSE 10
    IN  Num(RoundDiv(delta * c * d, 100))

BASELINE == 6000

applyTensionDelta_NoClamp(current, delta) ==
  IF IsNaN(current) \/ IsNaN(delta) THEN NaN
  ELSE Num(RoundDiv(98 * (Val(current) + Val(delta)) + 2 * BASELINE, 100))

\* A gravity term with the wrong sign: the value is pushed away from the
\* baseline.
applyTensionDelta_Repel(current, delta) ==
  IF IsNaN(current) \/ IsNaN(delta) THEN NaN
  ELSE
    LET newValue    == Val(current) + Val(delta)
        withGravity == RoundDiv(102 * newValue - 2 * BASELINE, 100)
    IN  Num(Min(10000, Max(0, withGravity)))

\* current and delta are <<hundredths>> or NaN.  GRAVITY is 0.02, so
\* withGravity = 0.98 * newValue + 0.02 * BASELINE.
applyTensionDelta(current, delta) ==
  IF IsNaN(current) \/ IsNaN(delta) THEN NaN
  ELSE
    LET newValue    == Val(current) + Val(delta)
        withGravity == RoundDiv(98 * newValue + 2 * BASELINE, 100)
    IN  Num(Min(10000, Max(0, withGravity)))

\* Levels whose lower bounds are exclusive.
classifyTensionLevel_Exclusive(value) ==
  IF value > 9000 THEN [level |-> "critical", color |-> "#ff2222"]
  ELSE IF value > 7500 THEN [level |-> "high", color |-> "#ff6a00"]
  ELSE IF value > 5500 THEN [level |-> "moderate", color |-> "#ffb700"]
  ELSE IF value > 3500 THEN [level |-> "low", color |-> "#88cc44"]
  ELSE [level |-> "stable", color |-> "#00ff88"]

\* value is in hundredths.  The label of a level is a display string with
\* accented letters and is left out.
classifyTensionLevel(value) ==
  IF value >= 9000 THEN [level |-> "critical", color |-> "#ff2222"]
  ELSE IF value >= 7500 THEN [level |-> "high", color |-> "#ff6a00"]
  ELSE IF value >= 5500 THEN [level |-> "moderate", color |-> "#ffb700"]
  ELSE IF value >= 3500 THEN [level |-> "low", color |-> "#88cc44"]
  ELSE [level |-> "stable", color |-> "#00ff88"]

\* A test that looks for the keywords in the title only.
shouldTriggerAlert_TitleOnly(event) ==
  \/ (~IsNaN(event.impact_score) /\ Val(event.impact_score) >= 80)
  \/ \E kw \in ALERT_KEYWORDS : includes(toLowerCase(event.title), kw)

\* event.impact_score is <<tenths>> or NaN (undefined >= 8 is false).
shouldTriggerAlert(event) ==
  LET text == toLowerCase(event.title \o " " \o event.description)
  IN  \/ (~IsNaN(event.impact_score) /\ Val(event.impact_score) >= 80)
      \/ \E kw \in ALERT_KEYWORDS : includes(text, kw)

(***************************************************************************)
(* services/news.js: what fetchLatestNews hands to the cycle.  The result   *)
(* is Array.from(allArticles.values()) of a Map keyed by URL, so no two     *)
(* articles of a batch share a URL, and every article has a title and URL.  *)
(***************************************************************************)
ArticleTexts ==
  << [title |-> "Ceasefire talks resume",  description |-> ""],
     [title |-> "Missile strike reported", description |-> ""],
     [title |-> "Routine statement",       description |-> "Explosion near port"] >>

ArticleOf(u) ==
  LET t == ArticleTexts[((u - 1) % Len(ArticleTexts)) + 1]
  IN  [url |-> u, title |-> t.title, description |-> t.description]

UrlLists ==
  {s \in UNION {[1..n -> Urls] : n \in 0..NumUrls} :
     \A i, j \in DOMAIN s : i # j => s[i] # s[j]}

Batches == {[i \in DOMAIN s |-> ArticleOf(s[i])] : s \in UrlLists}

(***************************************************************************)
(* services/claude.js.  A reply of the classification model is text; what   *)
(* matters of it is whether JSON.parse accepts it and what it yields.       *)
(***************************************************************************)
NoObject == [kind |-> "null", category |-> "", impact_score |-> NaN, is_critical |-> FALSE]

Object(category, score, critical) ==
  [kind |-> "object", category |-> category, impact_score |-> score,
   is_critical |-> critical]

\* JSON.parse results of replies; "malformed" stands for a reply JSON.parse
\* rejects and for a failed API call.
Malformed == [parse |-> "malformed", value |-> NoObject]
Parsed(value) == [parse |-> "ok", value |-> value]

\* The replies the classification model gives in the runs explored: text
\* that does not parse, the JSON value null, a critical military event, and
\* an object without impact_score (undefined, NaN once used in arithmetic).
MainReplies ==
  { Malformed,
    Parsed(NoObject),
    Parsed(Object("military", Num(100), TRUE)),
    Parsed(Object("economic", NaN, FALSE)) }

SafeDefault == Object("other", Num(30), FALSE)

classifyNewsEvent_Raw(reply) == reply.value

classifyNewsEvent(reply) ==
  IF reply.parse = "malformed" THEN SafeDefault ELSE reply.value

NoTranslations == [kind |-> "null", pt |-> "", es |-> "", ar |-> "", fa |-> ""]

\* Replies of the translation call: a JSON object with the four titles,
\* text that does not parse (or a failed call), the JSON value null.
TranslationReplies == {"translated", "malformed", "null"}

MainTranslations == {"translated", "null"}

\* What a search provider answers to one request (services/news.js).
RawArticles ==
  { [url |-> 1, title |-> "A", description |-> ""],
    [url |-> 1, title |-> "B", description |-> ""],
    [url |-> 2, title |-> "A", description |-> ""],
    [url |-> 0, title |-> "A", description |-> ""],
    [url |-> 2, title |-> "",  description |-> ""] }

RawLists == UNION {[1..n -> RawArticles] : n \in 0..2}

ProviderReplies ==
  { [kind |-> "throw", status |-> "", articles |-> <<>>],
    [kind |-> "http",  status |-> "", articles |-> <<>>],
    [kind |-> "json",  status |-> "error", articles |-> <<>>] }
  \cup {[kind |-> "json", status |-> "ok", articles |-> l] : l \in RawLists}

\* Payloads that are not the documented one: a body that is not JSON, and
\* a JSON object without a list of articles; with them a non-2xx status, an
\* error status and two well-formed lists.
PayloadReplies ==
  { [kind |-> "http",   status |-> "",      articles |-> <<>>],
    [kind |-> "text",   status |-> "",      articles |-> <<>>],
    [kind |-> "nolist", status |-> "ok",    articles |-> <<>>],
    [kind |-> "json",   status |-> "error", articles |-> <<>>],
    [kind |-> "json",   status |-> "ok",    articles |-> <<>>],
    [kind |-> "json",   status |-> "ok",
     articles |-> <<[url |-> 1, title |-> "A", description |-> ""]>>] }

\* What the gateway answers in one run of the system.
\* What the Telegram API does with a sendMessage: it answers, or the fetch
\* rejects (network error, or the 5 s AbortSignal.timeout).
TelegramReplies == {"ok", "throw"}

\* What a call to the store can do: answer, answer with an error object,
\* or reject the promise.
StoreOutcomes == {"ok", "error", "throw"}

MainGateway ==
  [classify |-> MainReplies, translate |-> MainTranslations, telegram |-> {"ok"},
   provider |-> ProviderReplies,
   store |-> StoreOutcomes]

\* Replies over the categories and the range of scores.
TensionReplies ==
  { Malformed,
    Parsed(Object("military", Num(100), TRUE)),
    Parsed(Object("nuclear", Num(0), FALSE)),
    Parsed(Object("diplomatic", Num(55), FALSE)),
    Parsed(Object("economic", NaN, FALSE)) }

TensionGateway ==
  [classify |-> TensionReplies, translate |-> {"translated"}, telegram |-> {"ok"},
   provider |-> ProviderReplies,
   store |-> StoreOutcomes]

\* Replies around the thresholds of the alert decision (8) and of the
\* severity (7 and 9), with and without the is_critical flag, a score
\* outside [0,10], an object without impact_score, and text that does not
\* parse.
AlertReplies ==
  { Malformed,
    Parsed(Object("diplomatic", Num(79), FALSE)),
    Parsed(Object("diplomatic", Num(80), FALSE)),
    Parsed(Object("other", Num(69), TRUE)),
    Parsed(Object("military", Num(70), TRUE)),
    Parsed(Object("military", Num(89), FALSE)),
    Parsed(Object("nuclear", Num(90), FALSE)),
    Parsed(Object("military", Num(150), TRUE)),
    Parsed(Object("economic", NaN, TRUE)) }

AlertGateway ==
  [classify |-> AlertReplies, translate |-> {"translated"},
   telegram |-> TelegramReplies, provider |-> ProviderReplies,
   store |-> StoreOutcomes]

\* A fallback that fills in the Portuguese title only.
translateNewsTitle_PartialFallback(reply, titleEn) ==
  CASE reply = "translated" ->
         [kind |-> "object", pt |-> "pt:" \o titleEn, es |-> "es:" \o titleEn,
          ar |-> "ar:" \o titleEn, fa |-> "fa:" \o titleEn]
    [] reply = "malformed" ->
         [kind |-> "object", pt |-> titleEn, es |-> "", ar |-> "", fa |-> ""]
    [] OTHER -> NoTranslations

translateNewsTitle(reply, titleEn) ==
  CASE reply = "translated" ->
         [kind |-> "object", pt |-> "pt:" \o titleEn, es |-> "es:" \o titleEn,
          ar |-> "ar:" \o titleEn, fa |-> "fa:" \o titleEn]
    [] reply = "malformed" ->
         [kind |-> "object", pt |-> titleEn, es |-> titleEn, ar |-> titleEn,
          fa |-> titleEn]
    [] OTHER -> NoTranslations

(***************************************************************************)
(* schema.sql: the constraints of the tables the cycle writes.              *)
(***************************************************************************)
\* news_events: url UNIQUE, the CHECKs on category and impact_score, and the
\* NUMERIC(4,2) range of tension_delta.  A NULL passes a CHECK.
news_events_accepts_NoUnique(row) ==
  /\ row.category \in Categories
  /\ (IsNaN(row.impact_score) \/ Val(row.impact_score) \in 0..100)
  /\ (IsNaN(row.tension_delta) \/ Val(row.tension_delta) \in -9999..9999)

news_events_accepts(row) ==
  /\ ~\E e \in 1..Len(news_events) : news_events[e].url = row.url
  /\ row.category \in Categories
  /\ (IsNaN(row.impact_score) \/ Val(row.impact_score) \in 0..100)
  /\ (IsNaN(row.tension_delta) \/ Val(row.tension_delta) \in -9999..9999)

\* tension_history: tension_value NOT NULL, CHECK 0 <= tension_value <= 100.
tension_history_accepts(value) ==
  ~IsNaN(value) /\ Val(value) \in 0..10000

\* users rows and the filter of processAlert's query.
Users ==
  << [id |-> 1, plan |-> "pro",  alert_telegram_enabled |-> TRUE,  telegram_chat_id |-> TRUE],
     [id |-> 2, plan |-> "free", alert_telegram_enabled |-> TRUE,  telegram_chat_id |-> TRUE],
     [id |-> 3, plan |-> "pro",  alert_telegram_enabled |-> FALSE, telegram_chat_id |-> TRUE],
     [id |-> 4, plan |-> "pro",  alert_telegram_enabled |-> TRUE,  telegram_chat_id |-> FALSE],
     [id |-> 5, plan |-> "pro",  alert_telegram_enabled |-> TRUE,  telegram_chat_id |-> TRUE] >>

EligibleUser(u) ==
  u.plan = "pro" /\ u.alert_telegram_enabled /\ u.telegram_chat_id

\* A query without its three filters.
ProUsersQuery_Unfiltered == Users

\* Lines 185-190.
ProUsersQuery == SelectSeq(Users, EligibleUser)

(***************************************************************************)
(* State.                                                                   *)
(***************************************************************************)
\* The locals of runNewsCycle and processAlert when no invocation is in
\* flight.  parse records whether the classification reply of the current
\* article parsed.
\* No insert has been prepared.
NoRow == [url |-> 0]

Idle ==
  [pc |-> "idle", hung |-> FALSE, articles |-> <<>>, idx |-> 0,
   latestTension |-> NaN, currentTension |-> NaN, alertsToFire |-> <<>>,
   parse |-> "", classification |-> NoObject, translations |-> NoTranslations,
   translationParse |-> "", row |-> NoRow, insertError |-> "", kw |-> 0, allArticles |-> <<>>, calls |-> <<>>, aidx |-> 0, alert |-> 0, proUsers |-> <<>>, uidx |-> 0]

\* What a cycle has done so far; kept after it ends, reset when the next
\* one is accepted.  active counts the invocations between the guard being
\* set and being cleared.  sinceClassify tells whether the cycle has called
\* classifyNewsEvent ("called") and has slept since then ("delayed").
NoMeter ==
  [active |-> 0, exit |-> "none", samplesBefore |-> 0, fetches |-> 0,
   tensionReads |-> 0, tensionWrites |-> 0, dispatched |-> 0,
   sinceClassify |-> "none"]

\* Telegram configuration the process is deployed with.
EnvConfigs ==
  {[TELEGRAM_BOT_TOKEN |-> TRUE, TELEGRAM_CHAT_ID |-> TRUE,
    NEWS_API_KEY |-> TRUE, GNEWS_API_KEY |-> TRUE]}

\* Deployments with and without each provider's key.
FetchEnvConfigs ==
  {[TELEGRAM_BOT_TOKEN |-> TRUE, TELEGRAM_CHAT_ID |-> TRUE,
    NEWS_API_KEY |-> n, GNEWS_API_KEY |-> g] : n, g \in BOOLEAN}

\* tension_history when the process starts: the seed of schema.sql, whose
\* last row is 78.
SeedHistories == {<<7800>>}

\* No request to the tension route has been answered yet.
NoResponse == [status |-> 0, value |-> 0, level |-> "", color |-> ""]

(***************************************************************************)
(* The HTTP tier: the Stripe webhook and the analysis route.  Each request  *)
(* in flight occupies a slot of requests; a free slot has pc "idle" and     *)
(* keeps the status of the last response sent from it.                      *)
(***************************************************************************)
NumRequests == 2
NumEvents == 2
MaxRequests == 3
MaxNow == 3

ReqIds == 1..NumRequests
EventIds == 1..NumEvents
UserIds == {1}

\* Line 297 of services/supabase.js.
FREE_LIMIT == 5

\* 24 * 60 * 60 * 1000 ms, in units of twelve hours.
DAY == 2

NoRequest ==
  [pc |-> "idle", status |-> 0, event |-> 0, existing |-> FALSE,
   user |-> 0, plan |-> "", count |-> 0, at |-> 0]

\* The web tier when no request has been made.
NoWeb ==
  /\ stripe_events = {}
  /\ users = [u \in UserIds |->
                [plan |-> "free", ai_analyses_today |-> 0, ai_analyses_reset_at |-> 0]]
  /\ requests = [r \in ReqIds |-> NoRequest]
  /\ now = 0
  /\ handled = [e \in EventIds |-> 0]
  /\ accepted = [u \in UserIds |-> 0]

InitWith(histories, cycles, gateways) ==
  /\ isRunning = [p \in ProcIds |-> FALSE]
  /\ proc = [p \in ProcIds |-> Idle]
  /\ news_events = <<>>
  /\ tension_history \in histories
  /\ alerts = <<>>
  /\ sent = <<>>
  /\ env \in EnvConfigs
  /\ gateway \in gateways
  /\ cyclesLeft = cycles
  /\ dropped = 0
  /\ meter = [p \in ProcIds |-> NoMeter]
  /\ log = <<>>
  /\ response = NoResponse
  /\ NoWeb

Init == InitWith(SeedHistories, MaxCycles, {MainGateway})

\* One cycle from a tension_history whose latest sample ranges over
\* [0,100], with replies that give deltas of both signs.
EdgeHistories ==
  {<<>>, <<0>>, <<1>>, <<250>>, <<6000>>, <<9000>>, <<9999>>, <<10000>>}

TensionInit == InitWith(EdgeHistories, 1, {TensionGateway})

\* One cycle with replies around the alert thresholds and a Telegram API
\* that can fail.
AlertInit == InitWith(SeedHistories, 1, {AlertGateway})

At(p, label) == proc[p].pc = label /\ ~proc[p].hung

\* The finally block of runNewsCycle: the guard is cleared and the
\* invocation is over.
Release_Finally(p, kind, m) ==
  /\ isRunning' = [isRunning EXCEPT ![p] = FALSE]
  /\ proc' = [proc EXCEPT ![p] = Idle]
  /\ meter' = [meter EXCEPT ![p] = [m EXCEPT !.active = @ - 1, !.exit = kind]]

\* A release written at the end of the try block instead of in finally:
\* an exception skips it.
Release_NotOnException(p, kind, m) ==
  /\ isRunning' = [isRunning EXCEPT ![p] = (kind = "fatal")]
  /\ proc' = [proc EXCEPT ![p] = Idle]
  /\ meter' = [meter EXCEPT ![p] = [m EXCEPT !.active = @ - 1, !.exit = kind]]

Release(p, kind, m) == Release_Finally(p, kind, m)

(***************************************************************************)
(* runNewsCycle, lines 21-29: the guard.                                    *)
(***************************************************************************)
Accepted(p) ==
  /\ cyclesLeft > 0
  /\ cyclesLeft' = cyclesLeft - 1
  /\ isRunning' = [isRunning EXCEPT ![p] = TRUE]
  /\ proc' = [proc EXCEPT ![p] = [Idle EXCEPT !.pc = "fetch"]]
  /\ meter' = [meter EXCEPT ![p] =
                 [NoMeter EXCEPT !.active = meter[p].active + 1,
                                 !.samplesBefore = Len(tension_history)]]
  /\ UNCHANGED <<store, env, gateway, web, log, response, dropped>>

Skipped(p) ==
  /\ dropped < MaxDropped
  /\ dropped' = dropped + 1
  /\ UNCHANGED <<isRunning, proc, store, env, gateway, web, log, response, cyclesLeft, meter>>

RunNewsCycle_NoGuard(p) == Accepted(p)

RunNewsCycle_SkipClearsGuard(p) ==
  IF isRunning[p]
  THEN /\ dropped < MaxDropped
       /\ dropped' = dropped + 1
       /\ isRunning' = [isRunning EXCEPT ![p] = FALSE]
       /\ UNCHANGED <<proc, store, env, gateway, web, log, response, cyclesLeft, meter>>
  ELSE Accepted(p)

\* A timer tick or a manual call: both call runNewsCycle().
RunNewsCycle(p) == IF isRunning[p] THEN Skipped(p) ELSE Accepted(p)

(***************************************************************************)
(* Lines 33-37: the fetch and the early return on an empty batch.           *)
(***************************************************************************)
FetchLatestNews_NoEarlyReturn(p) ==
  /\ At(p, "fetch")
  /\ \E batch \in Batches :
       /\ proc' = [proc EXCEPT ![p].pc = "readTension", ![p].articles = batch]
       /\ meter' = [meter EXCEPT ![p].fetches = @ + 1]
       /\ UNCHANGED isRunning
  /\ UNCHANGED <<store, env, gateway, web, log, response, cyclesLeft, dropped>>

FetchLatestNews(p) ==
  /\ At(p, "fetch")
  /\ \E batch \in Batches :
       LET m == [meter[p] EXCEPT !.fetches = @ + 1]
       IN  IF Len(batch) = 0
           THEN Release(p, "empty", m)
           ELSE /\ proc' = [proc EXCEPT ![p].pc = "readTension",
                                        ![p].articles = batch]
                /\ meter' = [meter EXCEPT ![p] = m]
                /\ UNCHANGED isRunning
  /\ UNCHANGED <<store, env, gateway, web, log, response, cyclesLeft, dropped>>

(***************************************************************************)
(* services/news.js, the fetch of lines 33-37 keyword by keyword.           *)
(* SEARCH_KEYWORDS has seven entries; the model walks NumKeywords of them.  *)
(* A provider's answer to one request: the fetch rejects (network error or  *)
(* the 10 s AbortSignal.timeout), the status is not 2xx, or a JSON body     *)
(* arrives with a status field and a list of articles.  In an article url 0 *)
(* and title "" stand for a missing url and a missing title.                *)
(***************************************************************************)
SEARCH_KEYWORDS == 1..NumKeywords

Thrown == [threw |-> TRUE, articles |-> <<>>]
Returned(articles) == [threw |-> FALSE, articles |-> articles]

\* .filter(a => a.title && a.url)
HasTitleAndUrl(a) == a.title # "" /\ a.url # 0

\* Lines 20-49.  fetch rejects; !res.ok; res.json() rejects on a body that
\* is not JSON; data.status; data.articles || [].
fetchFromNewsAPI(reply) ==
  IF reply.kind = "throw" THEN Thrown
  ELSE IF reply.kind = "http" THEN Returned(<<>>)
  ELSE IF reply.kind = "text" THEN Thrown
  ELSE IF reply.status # "ok" THEN Returned(<<>>)
  ELSE IF reply.kind = "nolist" THEN Returned(<<>>)
  ELSE Returned(SelectSeq(reply.articles, HasTitleAndUrl))

\* Lines 55-81.
fetchFromGNews(reply) ==
  IF reply.kind = "throw" THEN Thrown
  ELSE IF reply.kind = "http" THEN Returned(<<>>)
  ELSE IF reply.kind = "text" THEN Thrown
  ELSE IF reply.kind = "nolist" THEN Returned(<<>>)
  ELSE Returned(SelectSeq(reply.articles, HasTitleAndUrl))

HasUrl(all, u) == \E i \in 1..Len(all) : all[i].url = u

\* allArticles.set(article.url, article) whatever the map holds: the
\* entry keeps its place and takes the new article.
SetArticle_Overwrite(all, article) ==
  IF HasUrl(all, article.url)
  THEN [i \in 1..Len(all) |-> IF all[i].url = article.url THEN article ELSE all[i]]
  ELSE Append(all, article)

\* Lines 105-107: if (!allArticles.has(article.url)) allArticles.set(...).
\* A Map keeps its entries in insertion order.
SetArticle(all, article) ==
  IF HasUrl(all, article.url) THEN all ELSE Append(all, article)

\* Lines 104-108.
RECURSIVE Merge(_, _, _)
Merge(all, articles, i) ==
  IF i > Len(articles) THEN all
  ELSE Merge(SetArticle(all, articles[i]), articles, i + 1)

CallKind(result) ==
  IF result.threw THEN "throw"
  ELSE IF Len(result.articles) = 0 THEN "empty" ELSE "articles"

\* Lines 92-102: one pass of the keyword loop up to the merge.  An
\* exception of the primary call leaves the try block at once.
KeywordPass(e, primaryReply, secondaryReply) ==
  LET primary  == IF e.NEWS_API_KEY THEN fetchFromNewsAPI(primaryReply)
                  ELSE Returned(<<>>)
      fallback == ~primary.threw /\ Len(primary.articles) = 0 /\ e.GNEWS_API_KEY
      second   == IF fallback THEN fetchFromGNews(secondaryReply) ELSE Returned(<<>>)
  IN  [threw     |-> primary.threw \/ second.threw,
       articles  |-> IF fallback THEN second.articles ELSE primary.articles,
       primary   |-> IF e.NEWS_API_KEY THEN CallKind(primary) ELSE "none",
       secondary |-> IF fallback THEN CallKind(second) ELSE "none",
       primaryReply   |-> IF e.NEWS_API_KEY THEN primaryReply.kind ELSE "none",
       secondaryReply |-> IF fallback THEN secondaryReply.kind ELSE "none"]

\* A loop without the try/catch: the exception leaves fetchLatestNews and
\* is caught by runNewsCycle.
CatchKeyword_Rethrows(p, pass) ==
  Release(p, "fatal", meter[p])

\* Lines 113-115: the exception is logged and the loop goes on.
CatchKeyword(p, pass) ==
  /\ proc' = [proc EXCEPT
        ![p].kw = @ + 1,
        ![p].calls = Append(@, [primary |-> pass.primary,
                                secondary |-> pass.secondary,
                                primaryReply |-> pass.primaryReply,
                                secondaryReply |-> pass.secondaryReply,
                                threw |-> TRUE, articles |-> <<>>])]
  /\ UNCHANGED <<isRunning, meter>>

\* Lines 90-116: one keyword.
FetchKeyword(p) ==
  /\ At(p, "fetch")
  /\ proc[p].kw < NumKeywords
  /\ \E primaryReply, secondaryReply \in gateway.provider :
       LET pass == KeywordPass(env, primaryReply, secondaryReply)
       IN  IF pass.threw
           THEN CatchKeyword(p, pass)
           ELSE /\ proc' = [proc EXCEPT
                      ![p].kw = @ + 1,
                      ![p].allArticles = Merge(@, pass.articles, 1),
                      ![p].calls = Append(@, [primary |-> pass.primary,
                                              secondary |-> pass.secondary,
                                              primaryReply |-> pass.primaryReply,
                                              secondaryReply |-> pass.secondaryReply,
                                              threw |-> FALSE,
                                              articles |-> pass.articles])]
                /\ UNCHANGED <<isRunning, meter>>
  /\ UNCHANGED <<store, env, gateway, web, log, response, cyclesLeft, dropped>>

\* Lines 118-120 and newsCron.js 33-37: the batch is handed to the cycle.
FetchReturns(p) ==
  /\ At(p, "fetch")
  /\ proc[p].kw = NumKeywords
  /\ LET m     == [meter[p] EXCEPT !.fetches = @ + 1]
         batch == proc[p].allArticles
     IN  IF Len(batch) = 0
         THEN Release(p, "empty", m)
         ELSE /\ proc' = [proc EXCEPT ![p].pc = "readTension",
                                      ![p].articles = batch]
              /\ meter' = [meter EXCEPT ![p] = m]
              /\ UNCHANGED isRunning
  /\ UNCHANGED <<store, env, gateway, web, log, response, cyclesLeft, dropped>>

(***************************************************************************)
(* Lines 40-48: the current tension.  .single() yields data null when the   *)
(* table is empty or the call fails; "|| 75" replaces null, and 0, by 75.   *)
(***************************************************************************)
LatestTension(outcome) ==
  IF outcome = "ok" /\ Len(tension_history) > 0
  THEN Num(tension_history[Len(tension_history)])
  ELSE NaN

StartingTension(latestTension) ==
  IF IsNaN(latestTension) \/ Val(latestTension) = 0 THEN Num(7500) ELSE latestTension

ReadTension(p) ==
  /\ At(p, "readTension")
  /\ \E outcome \in gateway.store :
       LET m == [meter[p] EXCEPT !.tensionReads = @ + 1]
       IN  IF outcome = "throw"
           THEN Release(p, "fatal", m)
           ELSE /\ proc' = [proc EXCEPT
                     ![p].pc = "lookup", ![p].idx = 1,
                     ![p].latestTension = LatestTension(outcome),
                     ![p].currentTension = StartingTension(LatestTension(outcome)),
                     ![p].alertsToFire = <<>>]
                /\ meter' = [meter EXCEPT ![p] = m]
                /\ UNCHANGED isRunning
  /\ UNCHANGED <<store, env, gateway, web, log, response, cyclesLeft, dropped>>

(***************************************************************************)
(* Lines 51-135: the article loop.                                          *)
(***************************************************************************)
Article(p) == proc[p].articles[proc[p].idx]

\* A loop that, once left, goes to the queued alerts before the sample.
NextArticle_DispatchFirst(pr) ==
  [pr EXCEPT !.idx = @ + 1,
             !.pc = IF pr.idx < Len(pr.articles) THEN "lookup"
                    ELSE IF pr.alertsToFire # <<>> THEN "createAlert"
                    ELSE "saveTension",
             !.aidx = IF pr.idx >= Len(pr.articles) /\ pr.alertsToFire # <<>>
                      THEN 1 ELSE @,
             !.parse = "",
             !.classification = NoObject,
             !.translations = NoTranslations,
             !.translationParse = "",
             !.row = NoRow]

\* "continue", the end of an iteration, and the per-article catch all go to
\* the loop head; after the last article the loop is left.
NextArticle(pr) ==
  [pr EXCEPT !.idx = @ + 1,
             !.pc = IF pr.idx < Len(pr.articles) THEN "lookup" ELSE "saveTension",
             !.parse = "",
             !.classification = NoObject,
             !.translations = NoTranslations,
             !.translationParse = "",
             !.row = NoRow]

\* A catch that rethrows: the exception leaves the loop.
CatchArticle_Rethrows(p, m) ==
  /\ Release(p, "fatal", m)
  /\ UNCHANGED log

\* Lines 132-134: the per-article catch logs and the loop goes on.
CatchArticle(p, m) ==
  /\ log' = Append(log, [msg |-> "Article processing error", url |-> Article(p).url])
  /\ proc' = [proc EXCEPT ![p] = NextArticle(proc[p])]
  /\ meter' = [meter EXCEPT ![p] = m]
  /\ UNCHANGED isRunning

\* Lines 54-60: the dedup lookup.  .single() yields a row only when exactly
\* one row matches.
LookupExisting(p) ==
  /\ At(p, "lookup")
  /\ \E outcome \in gateway.store :
       LET m      == meter[p]
           exists == /\ outcome = "ok"
                     /\ Cardinality({e \in 1..Len(news_events) :
                                       news_events[e].url = Article(p).url}) = 1
       IN  IF outcome = "throw"
           THEN CatchArticle(p, m)
           ELSE /\ proc' = [proc EXCEPT ![p] =
                              IF exists THEN NextArticle(proc[p])
                              ELSE [proc[p] EXCEPT !.pc = "classify"]]
                /\ meter' = [meter EXCEPT ![p] = m]
                /\ UNCHANGED <<isRunning, log>>
  /\ UNCHANGED <<store, env, gateway, web, response, cyclesLeft, dropped>>

\* Lines 63-66.  classifyNewsEvent catches what the call and JSON.parse
\* throw, so it always returns.
Classify(p) ==
  /\ At(p, "classify")
  /\ \E reply \in gateway.classify :
       proc' = [proc EXCEPT ![p].pc = "translate",
                            ![p].parse = reply.parse,
                            ![p].classification = classifyNewsEvent(reply)]
  /\ meter' = [meter EXCEPT ![p].sinceClassify = "called"]
  /\ UNCHANGED <<isRunning, store, env, gateway, web, log, response, cyclesLeft, dropped>>

\* Lines 72-98: the row handed to the insert.
EventRow(article, classification, translations) ==
  [ url           |-> article.url,
    title         |-> article.title,
    description   |-> article.description,
    category      |-> classification.category,
    impact_score  |-> classification.impact_score,
    is_critical   |-> \/ classification.is_critical
                      \/ shouldTriggerAlert(
                           [title |-> article.title,
                            description |-> article.description,
                            impact_score |-> classification.impact_score]),
    tension_delta |-> calculateTensionDelta(classification.category,
                        classification.impact_score, article.title),
    title_en      |-> article.title,
    title_pt      |-> translations.pt,
    title_es      |-> translations.es,
    title_ar      |-> translations.ar,
    title_fa      |-> translations.fa ]

WithId(row, id) == [f \in (DOMAIN row) \cup {"id"} |-> IF f = "id" THEN id ELSE row[f]]

\* Lines 69-100: the translation returns, the delta is computed and the
\* insert is built and issued.  Reading a property of null throws.
Translate(p) ==
  /\ At(p, "translate")
  /\ \E reply \in gateway.translate :
       LET m  == meter[p]
           tr == translateNewsTitle(reply, Article(p).title)
       IN  IF proc[p].classification.kind = "null" \/ tr.kind = "null"
           THEN CatchArticle(p, m)
           ELSE /\ proc' = [proc EXCEPT
                     ![p].pc = "insert",
                     ![p].translations = tr,
                     ![p].translationParse =
                        IF reply = "malformed" THEN "malformed" ELSE "ok",
                     ![p].row = EventRow(Article(p), proc[p].classification, tr),
                     ![p].insertError = ""]
                /\ meter' = [meter EXCEPT ![p] = m]
                /\ UNCHANGED <<isRunning, log>>
  /\ UNCHANGED <<store, env, gateway, web, response, cyclesLeft, dropped>>

\* A decision that looks at the gateway's flag only.
NeedsAlert_FlagOnly(savedEvent, classification) == classification.is_critical

\* Lines 114-120.
NeedsAlert(savedEvent, classification) ==
  \/ savedEvent.is_critical
  \/ (~IsNaN(classification.impact_score) /\ Val(classification.impact_score) >= 80)

\* insertError.code of an insert that answered: none when the row was
\* stored, the SQLSTATE of the constraint that refused it (a CHECK is
\* tested before the unique index), or the error of a call that failed.
InsertErrorCode(outcome, row) ==
  IF outcome # "ok" THEN "failed"
  ELSE IF ~news_events_accepts_NoUnique(row) THEN "23514"
  ELSE IF ~news_events_accepts(row) THEN "23505"
  ELSE "none"

\* JavaScript's ===: values of different types are never equal.
StrictEquals(a, b) == a.type = b.type /\ a.value = b.value

\* A test that is true of every insert error, the duplicate key included.
InsertErrorIsLogged_Always(code) == TRUE

\* Line 104, !insertError.code === '23505': the negation binds first, so a
\* boolean is compared with a string.
InsertErrorIsLogged(code) ==
  StrictEquals([type |-> "boolean", value |-> (code = "")],
               [type |-> "string", value |-> "23505"])

\* An insert step that adds the delta of a row the store did not accept.
InsertEvent_CountsRejected(p) ==
  /\ At(p, "insert")
  /\ \E outcome \in gateway.store :
       LET m   == meter[p]
           row == proc[p].row
           code == InsertErrorCode(outcome, row)
           savedEvent == WithId(row, Len(news_events) + 1)
       IN  IF outcome = "throw"
           THEN /\ CatchArticle(p, m)
                /\ UNCHANGED store
           ELSE IF outcome = "ok" /\ news_events_accepts(row)
           THEN /\ news_events' = Append(news_events, savedEvent)
                /\ proc' = [proc EXCEPT
                     ![p].pc = "sleep",
                     ![p].insertError = "none",
                     ![p].currentTension =
                        applyTensionDelta(proc[p].currentTension, row.tension_delta),
                     ![p].alertsToFire =
                        IF NeedsAlert(savedEvent, proc[p].classification)
                        THEN Append(@, [event |-> savedEvent,
                                        score |-> proc[p].classification.impact_score])
                        ELSE @]
                /\ meter' = [meter EXCEPT ![p] = m]
                /\ UNCHANGED <<isRunning, tension_history, alerts, sent, log>>
           ELSE /\ proc' = [proc EXCEPT ![p] =
                     [NextArticle(proc[p]) EXCEPT
                        !.insertError = code,
                        !.currentTension =
                          applyTensionDelta(proc[p].currentTension, row.tension_delta)]]
                /\ meter' = [meter EXCEPT ![p] = m]
                /\ UNCHANGED <<isRunning, store, log>>
  /\ UNCHANGED <<env, gateway, web, response, cyclesLeft, dropped>>

\* Lines 79-130: the insert returns.  On insertError the article is left
\* with "continue"; otherwise the tension is updated, the alert is queued
\* and the sleep starts.
InsertEvent(p) ==
  /\ At(p, "insert")
  /\ \E outcome \in gateway.store :
       LET m   == meter[p]
           row == proc[p].row
           code == InsertErrorCode(outcome, row)
           savedEvent == WithId(row, Len(news_events) + 1)
       IN  IF outcome = "throw"
           THEN /\ CatchArticle(p, m)
                /\ UNCHANGED store
           ELSE IF outcome = "ok" /\ news_events_accepts(row)
           THEN /\ news_events' = Append(news_events, savedEvent)
                /\ proc' = [proc EXCEPT
                     ![p].pc = "sleep",
                     ![p].insertError = "none",
                     ![p].currentTension =
                        applyTensionDelta(proc[p].currentTension, row.tension_delta),
                     ![p].alertsToFire =
                        IF NeedsAlert(savedEvent, proc[p].classification)
                        THEN Append(@, [event |-> savedEvent,
                                        score |-> proc[p].classification.impact_score])
                        ELSE @]
                /\ meter' = [meter EXCEPT ![p] = m]
                /\ UNCHANGED <<isRunning, tension_history, alerts, sent, log>>
           ELSE /\ proc' = [proc EXCEPT ![p] =
                     [NextArticle(proc[p]) EXCEPT !.insertError = code]]
                /\ meter' = [meter EXCEPT ![p] = m]
                /\ log' = IF InsertErrorIsLogged(code)
                          THEN Append(log, [msg |-> "Insert error", url |-> row.url])
                          ELSE log
                /\ UNCHANGED <<isRunning, store>>
  /\ UNCHANGED <<env, gateway, web, response, cyclesLeft, dropped>>

\* Line 130: the delay between articles, then the next iteration.
Sleep(p) ==
  /\ At(p, "sleep")
  /\ proc' = [proc EXCEPT ![p] = NextArticle(proc[p])]
  /\ meter' = [meter EXCEPT ![p].sinceClassify = "delayed"]
  /\ UNCHANGED <<isRunning, store, env, gateway, web, log, response, cyclesLeft, dropped>>

(***************************************************************************)
(* Lines 138-151: the tension sample, then the queued alerts.               *)
(***************************************************************************)
\* Line 150-157 after the last alert; lines 146-148 otherwise.
AfterAlert(p, m) ==
  IF proc[p].aidx < Len(proc[p].alertsToFire)
  THEN /\ proc' = [proc EXCEPT ![p].pc = "createAlert", ![p].aidx = @ + 1,
                               ![p].alert = 0, ![p].proUsers = <<>>,
                               ![p].uidx = 0]
       /\ meter' = [meter EXCEPT ![p] = m]
       /\ UNCHANGED isRunning
  ELSE Release(p, "completed", m)

\* The running value at the start of the cycle instead of at its end.
TensionToSave_Stale(p) == StartingTension(LatestTension("ok"))

\* Line 139: the value handed to the insert.
TensionToSave(p) == proc[p].currentTension

\* Lines 138-141.  The error of the insert is not looked at.
SaveTension(p) ==
  /\ At(p, "saveTension")
  /\ \E outcome \in gateway.store :
       LET value == TensionToSave(p)
           saved == outcome = "ok" /\ tension_history_accepts(value)
           m     == [meter[p] EXCEPT !.tensionWrites = @ + 1]
       IN  /\ tension_history' = IF saved THEN Append(tension_history, Val(value))
                                 ELSE tension_history
           /\ IF outcome = "throw"
              THEN Release(p, "fatal", m)
              ELSE AfterAlert(p, m)
  /\ UNCHANGED <<news_events, alerts, sent, env, gateway, web, log, response, cyclesLeft, dropped>>

(***************************************************************************)
(* processAlert, lines 163-202.  Whatever is thrown inside is caught and    *)
(* logged, and the function returns.                                        *)
(***************************************************************************)
\* Every pass of the loop taking the head of the queue.
AlertData_First(p) == proc[p].alertsToFire[1]

\* Lines 146-147: the queue entry the loop is at.
AlertData(p) == proc[p].alertsToFire[proc[p].aidx]

\* Thresholds tested with > instead of >=.
Severity_Strict(score) ==
  IF ~IsNaN(score) /\ Val(score) > 90 THEN "critical"
  ELSE IF ~IsNaN(score) /\ Val(score) > 70 THEN "high"
  ELSE "medium"

\* Line 168.  A comparison with NaN is false.
Severity(score) ==
  IF ~IsNaN(score) /\ Val(score) >= 90 THEN "critical"
  ELSE IF ~IsNaN(score) /\ Val(score) >= 70 THEN "high"
  ELSE "medium"

\* A processAlert without the test of line 177: it goes on to the
\* channel whether or not the row was stored.
CreateAlert_SendsAnyway(p) ==
  /\ At(p, "createAlert")
  /\ \E outcome \in gateway.store :
       LET m == [meter[p] EXCEPT !.dispatched = @ + 1]
           a == [id       |-> Len(alerts) + 1,
                 event_id |-> AlertData(p).event.id,
                 title    |-> AlertData(p).event.title,
                 severity |-> Severity(AlertData(p).score),
                 category |-> AlertData(p).event.category,
                 is_active |-> TRUE]
       IN  /\ alerts' = IF outcome = "ok" THEN Append(alerts, a) ELSE alerts
           /\ proc' = [proc EXCEPT ![p].pc = "sendGlobal", ![p].alert = a.id]
           /\ meter' = [meter EXCEPT ![p] = m]
           /\ UNCHANGED isRunning
  /\ UNCHANGED <<news_events, tension_history, sent, env, gateway, web, log, response, cyclesLeft, dropped>>

\* Lines 168-179 and services/supabase.js createAlert.
CreateAlert(p) ==
  /\ At(p, "createAlert")
  /\ \E outcome \in gateway.store :
       LET m == [meter[p] EXCEPT !.dispatched = @ + 1]
           a == [id       |-> Len(alerts) + 1,
                 event_id |-> AlertData(p).event.id,
                 title    |-> AlertData(p).event.title,
                 severity |-> Severity(AlertData(p).score),
                 category |-> AlertData(p).event.category,
                 is_active |-> TRUE]
       IN  IF outcome = "ok"
           THEN /\ alerts' = Append(alerts, a)
                /\ proc' = [proc EXCEPT ![p].pc = "sendGlobal", ![p].alert = a.id]
                /\ meter' = [meter EXCEPT ![p] = m]
                /\ UNCHANGED isRunning
           ELSE /\ AfterAlert(p, m)
                /\ UNCHANGED alerts
  /\ UNCHANGED <<news_events, tension_history, sent, env, gateway, web, log, response, cyclesLeft, dropped>>

\* Line 182 and sendTelegramAlert: nothing is sent without both variables;
\* a failed send is logged and swallowed.  to = 0 is the global channel.
SendTelegramAlert(p) ==
  /\ At(p, "sendGlobal")
  /\ \E reply \in gateway.telegram :
       sent' = IF env.TELEGRAM_BOT_TOKEN /\ env.TELEGRAM_CHAT_ID
               THEN Append(sent, [alert |-> proc[p].alert, to |-> 0,
                                  delivered |-> reply = "ok"])
               ELSE sent
  /\ proc' = [proc EXCEPT ![p].pc = "queryUsers"]
  /\ UNCHANGED <<isRunning, news_events, tension_history, alerts, env,
                 gateway, web, log, response, cyclesLeft, dropped, meter>>

\* Lines 185-194, and line 62 of notifyProUsersViaTelegram.
QueryProUsers(p) ==
  /\ At(p, "queryUsers")
  /\ \E outcome \in gateway.store :
       LET m        == meter[p]
           proUsers == IF outcome = "ok" THEN ProUsersQuery ELSE <<>>
       IN  IF outcome # "throw" /\ Len(proUsers) > 0 /\ env.TELEGRAM_BOT_TOKEN
           THEN /\ proc' = [proc EXCEPT ![p].pc = "notify",
                                        ![p].proUsers = proUsers, ![p].uidx = 1]
                /\ meter' = [meter EXCEPT ![p] = m]
                /\ UNCHANGED isRunning
           ELSE AfterAlert(p, m)
  /\ UNCHANGED <<store, env, gateway, web, log, response, cyclesLeft, dropped>>

\* notifyProUsersViaTelegram, lines 64-83: one user of the list.  A failed
\* send is caught and logged.
NextUser(p) ==
  IF proc[p].uidx < Len(proc[p].proUsers)
  THEN /\ proc' = [proc EXCEPT ![p].uidx = @ + 1]
       /\ UNCHANGED <<isRunning, meter>>
  ELSE AfterAlert(p, meter[p])

\* A send whose rejection is not caught inside the loop: it leaves
\* notifyProUsersViaTelegram and is caught by processAlert.
NotifyUser_StopsOnFailure(p) ==
  /\ At(p, "notify")
  /\ \E reply \in gateway.telegram :
       LET user == proc[p].proUsers[proc[p].uidx]
       IN  /\ sent' = IF user.alert_telegram_enabled /\ user.telegram_chat_id
                      THEN Append(sent, [alert |-> proc[p].alert, to |-> user.id,
                                         delivered |-> reply = "ok"])
                      ELSE sent
           /\ IF reply = "throw" THEN AfterAlert(p, meter[p]) ELSE NextUser(p)
  /\ UNCHANGED <<news_events, tension_history, alerts, env, gateway, web, log, response, cyclesLeft, dropped>>

\* A loop that sends to every user of the list up to the current one.
NotifyUser_Resend(p) ==
  /\ At(p, "notify")
  /\ \E reply \in gateway.telegram :
       sent' = sent \o [i \in 1..proc[p].uidx |->
                         [alert |-> proc[p].alert, to |-> proc[p].proUsers[i].id,
                          delivered |-> reply = "ok"]]
  /\ NextUser(p)
  /\ UNCHANGED <<news_events, tension_history, alerts, env, gateway, web, log, response, cyclesLeft, dropped>>

NotifyUser(p) ==
  /\ At(p, "notify")
  /\ \E reply \in gateway.telegram :
       LET user == proc[p].proUsers[proc[p].uidx]
       IN  sent' = IF user.alert_telegram_enabled /\ user.telegram_chat_id
                   THEN Append(sent, [alert |-> proc[p].alert, to |-> user.id,
                                      delivered |-> reply = "ok"])
                   ELSE sent
  /\ NextUser(p)
  /\ UNCHANGED <<news_events, tension_history, alerts, env, gateway, web, log, response, cyclesLeft, dropped>>

(***************************************************************************)
(* A call to the store is awaited without a timeout (no AbortSignal, no     *)
(* race with a timer): when the store never answers, the await never        *)
(* resolves.  The provider and Telegram fetches carry AbortSignal.timeout.  *)
(***************************************************************************)
StoreCallLabels ==
  {"readTension", "lookup", "insert", "saveTension", "createAlert", "queryUsers"}

StoreNeverAnswers(p) ==
  /\ proc[p].pc \in StoreCallLabels
  /\ ~proc[p].hung
  /\ proc' = [proc EXCEPT ![p].hung = TRUE]
  /\ UNCHANGED <<isRunning, store, env, gateway, web, log, response, cyclesLeft, dropped, meter>>

\* One await of the invocation in flight resolving.
CycleStep(p) ==
  \/ FetchLatestNews(p)
  \/ ReadTension(p)
  \/ LookupExisting(p)
  \/ Classify(p)
  \/ Translate(p)
  \/ InsertEvent(p)
  \/ Sleep(p)
  \/ SaveTension(p)
  \/ CreateAlert(p)
  \/ SendTelegramAlert(p)
  \/ QueryProUsers(p)
  \/ NotifyUser(p)

Next ==
  \/ \E p \in DOMAIN isRunning : RunNewsCycle(p)
  \/ \E p \in DOMAIN isRunning : FetchLatestNews(p)
  \/ \E p \in DOMAIN isRunning : ReadTension(p)
  \/ \E p \in DOMAIN isRunning : LookupExisting(p)
  \/ \E p \in DOMAIN isRunning : Classify(p)
  \/ \E p \in DOMAIN isRunning : Translate(p)
  \/ \E p \in DOMAIN isRunning : InsertEvent(p)
  \/ \E p \in DOMAIN isRunning : Sleep(p)
  \/ \E p \in DOMAIN isRunning : SaveTension(p)
  \/ \E p \in DOMAIN isRunning : CreateAlert(p)
  \/ \E p \in DOMAIN isRunning : SendTelegramAlert(p)
  \/ \E p \in DOMAIN isRunning : QueryProUsers(p)
  \/ \E p \in DOMAIN isRunning : NotifyUser(p)
  \/ \E p \in DOMAIN isRunning : StoreNeverAnswers(p)

Spec == Init /\ [][Next]_vars

\* One cycle, with the event loop running every continuation whose await
\* has resolved.
LiveInit == InitWith(SeedHistories, 1, {MainGateway})

LiveSpec ==
  LiveInit /\ [][Next]_vars /\ \A p \in ProcIds : WF_vars(CycleStep(p))

TensionSpec == TensionInit /\ [][Next]_vars

AlertSpec == AlertInit /\ [][Next]_vars

\* fetchLatestNews keyword by keyword, under every combination of provider
\* keys, up to the point where the batch is handed to the cycle.
FetchInit ==
  /\ isRunning = [p \in ProcIds |-> FALSE]
  /\ proc = [p \in ProcIds |-> Idle]
  /\ news_events = <<>>
  /\ tension_history \in SeedHistories
  /\ alerts = <<>>
  /\ sent = <<>>
  /\ env \in FetchEnvConfigs
  /\ gateway = MainGateway
  /\ cyclesLeft = 1
  /\ dropped = 0
  /\ meter = [p \in ProcIds |-> NoMeter]
  /\ log = <<>>
  /\ response = NoResponse
  /\ NoWeb

FetchNext ==
  \/ \E p \in DOMAIN isRunning : RunNewsCycle(p)
  \/ \E p \in DOMAIN isRunning : FetchKeyword(p)
  \/ \E p \in DOMAIN isRunning : FetchReturns(p)

FetchSpec == FetchInit /\ [][FetchNext]_vars

\* The same walk with providers that answer with undocumented payloads.
PayloadGateway ==
  [classify |-> MainReplies, translate |-> MainTranslations, telegram |-> {"ok"},
   provider |-> PayloadReplies,
   store |-> StoreOutcomes]

PayloadInit ==
  /\ isRunning = [p \in ProcIds |-> FALSE]
  /\ proc = [p \in ProcIds |-> Idle]
  /\ news_events = <<>>
  /\ tension_history \in SeedHistories
  /\ alerts = <<>>
  /\ sent = <<>>
  /\ env \in FetchEnvConfigs
  /\ gateway = PayloadGateway
  /\ cyclesLeft = 1
  /\ dropped = 0
  /\ meter = [p \in ProcIds |-> NoMeter]
  /\ log = <<>>
  /\ response = NoResponse
  /\ NoWeb

PayloadSpec == PayloadInit /\ [][FetchNext]_vars

\* applyTensionDelta on its own: from every value of [0,100] at two
\* decimals, the function is applied with a zero delta and the result is
\* recorded after its argument.
GravityInit ==
  /\ isRunning = [p \in ProcIds |-> FALSE]
  /\ proc = [p \in ProcIds |-> Idle]
  /\ news_events = <<>>
  /\ tension_history \in {<<v>> : v \in 0..10000}
  /\ alerts = <<>>
  /\ sent = <<>>
  /\ env \in EnvConfigs
  /\ gateway = MainGateway
  /\ cyclesLeft = 0
  /\ dropped = 0
  /\ meter = [p \in ProcIds |-> NoMeter]
  /\ log = <<>>
  /\ response = NoResponse
  /\ NoWeb

ApplyZeroDelta ==
  /\ Len(tension_history) <= MaxDecay
  /\ tension_history' =
        Append(tension_history,
               Val(applyTensionDelta(Num(tension_history[Len(tension_history)]), Num(0))))
  /\ UNCHANGED <<isRunning, proc, news_events, alerts, sent, env, gateway, web, log, response,
                 cyclesLeft, dropped, meter>>

GravitySpec == GravityInit /\ [][ApplyZeroDelta]_vars

(***************************************************************************)
(* routes/tension.js, GET /api/tension/current: the latest sample and its   *)
(* level.  .single() reports an error when the table has no row.            *)
(***************************************************************************)
GetTensionCurrent ==
  /\ \E outcome \in {"ok", "error"} :
       IF outcome = "error" \/ Len(tension_history) = 0
       THEN response' = [NoResponse EXCEPT !.status = 500]
       ELSE LET value == tension_history[Len(tension_history)]
                classification == classifyTensionLevel(value)
            IN  response' = [status |-> 200, value |-> value,
                             level |-> classification.level,
                             color |-> classification.color]
  /\ UNCHANGED <<isRunning, proc, store, env, gateway, web, log, cyclesLeft,
                 dropped, meter>>

\* The route asked from every state in which the latest sample is a value
\* of [0,100] at two decimals.
LevelSpec == GravityInit /\ [][GetTensionCurrent]_vars

(***************************************************************************)
(* The tension engine on its own: the step of the article loop that        *)
(* computes the delta and the critical flag (newsCron.js 72-89), from every *)
(* state in which an article has just been classified.  The title, the      *)
(* description, the category and the score range over the sets below.       *)
(***************************************************************************)
CalcTitles ==
  {"missile strike reported", "ceasefire talks resume", "routine statement",
   "Missile Strike During Peace Talks", "CEASEFIRE Agreed"}

CalcDescriptions == {"", "Explosion near port"}

\* The six categories of the prompt and one the table does not list.
CalcCategories == Categories \cup {"sports"}

\* Scores 0.0 to 10.0 in tenths.
MaxScore == 100

\* The translation call answers in each of its three ways.
CalcGateway ==
  [classify |-> MainReplies, translate |-> TranslationReplies, telegram |-> {"ok"},
   provider |-> ProviderReplies,
   store |-> StoreOutcomes]

CalcArticles ==
  {[url |-> 1, title |-> t, description |-> d] :
     t \in CalcTitles, d \in CalcDescriptions}

CalcInit ==
  /\ isRunning = [p \in ProcIds |-> TRUE]
  /\ \E a \in CalcArticles, c \in CalcCategories, s \in 0..MaxScore :
       proc = [p \in ProcIds |->
                 [Idle EXCEPT !.pc = "translate", !.articles = <<a>>, !.idx = 1,
                              !.latestTension = Num(7800),
                              !.currentTension = Num(7800), !.parse = "ok",
                              !.classification = Object(c, Num(s), FALSE)]]
  /\ news_events = <<>>
  /\ tension_history \in SeedHistories
  /\ alerts = <<>>
  /\ sent = <<>>
  /\ env \in EnvConfigs
  /\ gateway = CalcGateway
  /\ cyclesLeft = 0
  /\ dropped = 0
  /\ meter = [p \in ProcIds |->
                [NoMeter EXCEPT !.active = 1, !.samplesBefore = 1,
                                !.fetches = 1, !.tensionReads = 1,
                                !.sinceClassify = "called"]]
  /\ log = <<>>
  /\ response = NoResponse
  /\ NoWeb

CalcNext ==
  \/ \E p \in DOMAIN isRunning : Translate(p)
  \/ \E p \in DOMAIN isRunning : InsertEvent(p)

CalcSpec == CalcInit /\ [][CalcNext]_vars

(***************************************************************************)
(* Properties.                                                              *)
(***************************************************************************)
Running(p) == proc[p].pc # "idle"

EventsOf(events, u) == {e \in 1..Len(events) : events[e].url = u}

\* C1: single-flight mutual exclusion.  In every reachable state at most
\* one invocation of runNewsCycle per process is between setting and
\* clearing the guard flag, and the flag is set exactly while one is.
SingleFlight ==
  \A p \in DOMAIN isRunning :
    /\ meter[p].active <= 1
    /\ isRunning[p] <=> meter[p].active = 1

\* A trigger arrived while a cycle was in flight, and one cycle is running.
SingleFlightWitness ==
  \E p \in DOMAIN isRunning :
    dropped > 0 /\ isRunning[p] /\ meter[p].active = 1 /\ proc[p].pc = "insert"

\* C2: a trigger that arrives while a cycle is running is dropped.  The
\* step that drops it happens only while the guard is set and changes
\* nothing else: not the guard, not the invocation in flight, not a table,
\* not a message sent, not what the cycle has fetched, read or written, and
\* not the number of cycles started: nothing is left behind that could
\* start a cycle later.
DroppedTriggerDoesNothing ==
  [][dropped' # dropped =>
       /\ \E p \in DOMAIN isRunning : isRunning[p] /\ Running(p)
       /\ UNCHANGED <<isRunning, proc, news_events, tension_history, alerts,
                      sent, env, gateway, web, log, response, cyclesLeft, meter>>]_vars

\* A trigger was dropped while the running cycle was waiting for an insert.
DroppedTriggerWitness ==
  \E p \in DOMAIN isRunning :
    dropped > 0 /\ isRunning[p] /\ proc[p].pc = "saveTension"

\* C3: the guard is released on every exit.  Whenever no invocation is in
\* flight (before the first cycle, or after a cycle ended by completion, by
\* the empty-batch return or by an exception outside the per-article try)
\* the guard is clear, and a trigger is accepted: it can start a cycle.
GuardReleasedOnEveryExit ==
  \A p \in DOMAIN isRunning :
    ~Running(p) =>
      /\ ~isRunning[p]
      /\ meter[p].active = 0
      /\ cyclesLeft > 0 => ENABLED (RunNewsCycle(p) /\ proc'[p].pc = "fetch")

\* A cycle ended by an exception outside the per-article try, the guard is
\* clear and a further trigger is still to come.
GuardReleasedWitness ==
  \E p \in DOMAIN isRunning :
    meter[p].exit = "fatal" /\ ~Running(p) /\ ~isRunning[p] /\ cyclesLeft > 0

\* C4: every cycle that enters RUNNING eventually returns to IDLE.
GuardEventuallyReleased ==
  \A p \in ProcIds : isRunning[p] ~> ~isRunning[p]

\* C5: idempotent ingestion.  The store never holds two NewsEvents with the
\* same URL, and once a URL has a NewsEvent no step creates, changes or
\* removes an event of that URL.
IdempotentIngestion ==
  /\ [](\A u \in Urls : Cardinality(EventsOf(news_events, u)) <= 1)
  /\ [][\A u \in Urls :
          EventsOf(news_events, u) # {} =>
            /\ EventsOf(news_events', u) = EventsOf(news_events, u)
            /\ \A e \in EventsOf(news_events, u) : news_events'[e] = news_events[e]]_vars

\* The dedup lookup failed for a stored URL, and the cycle is about to
\* insert an event for it.
IdempotentIngestionWitness ==
  \E p \in DOMAIN isRunning :
    At(p, "insert") /\ EventsOf(news_events, Article(p).url) # {}

LoopLabels == {"lookup", "classify", "translate", "insert", "sleep"}

PostLoopLabels == {"saveTension", "createAlert", "sendGlobal", "queryUsers", "notify"}

Last(events) == events[Len(events)]

HasAlertKeyword(article) ==
  \E kw \in ALERT_KEYWORDS :
    includes(toLowerCase(article.title \o " " \o article.description), kw)

\* C6 as stated: for every article whose classification reply is malformed
\* the cycle persists a NewsEvent, and that event has category other,
\* impact_score 3 and is_critical false.  No step drops such an article,
\* and the event stored for it carries exactly these three values.
MalformedReplyPersistsNonCritical ==
  /\ [](\A p \in DOMAIN isRunning :
          (proc[p].pc = "sleep" /\ proc[p].parse = "malformed") =>
             /\ Last(news_events).url = Article(p).url
             /\ Last(news_events).category = "other"
             /\ Last(news_events).impact_score = Num(30)
             /\ Last(news_events).is_critical = FALSE)
  /\ [][\A p \in DOMAIN isRunning :
          (proc[p].pc \in {"translate", "insert"} /\ proc[p].parse = "malformed") =>
             proc'[p].idx = proc[p].idx]_vars

\* C6, amended: a malformed reply makes the classification the safe default
\* (other, 3, not critical).  The article then reaches the insert when the
\* translation yields an object and is dropped otherwise; the insert either
\* stores one event for the article or stores nothing; and a stored event
\* has category other, impact_score 3 and is_critical true exactly when
\* title and description contain an alert keyword.
MalformedReplyUsesSafeDefault ==
  [][\A p \in DOMAIN isRunning :
       /\ (proc[p].pc = "classify" /\ proc'[p].parse = "malformed") =>
             /\ proc'[p].pc = "translate"
             /\ proc'[p].classification = SafeDefault
       /\ (proc[p].pc = "translate" /\ proc[p].parse = "malformed"
             /\ proc'[p].pc = "insert") =>
             /\ proc'[p].row.category = "other"
             /\ proc'[p].row.impact_score = Num(30)
             /\ proc'[p].row.is_critical = HasAlertKeyword(Article(p))
       /\ (proc[p].pc = "insert" /\ proc[p].parse = "malformed"
             /\ proc'[p] # proc[p] /\ ~proc'[p].hung) =>
             IF proc'[p].pc = "sleep"
             THEN /\ news_events' =
                        Append(news_events, WithId(proc[p].row, Len(news_events) + 1))
                  /\ Last(news_events').url = Article(p).url
                  /\ Last(news_events').category = "other"
                  /\ Last(news_events').impact_score = Num(30)
                  /\ Last(news_events').is_critical = HasAlertKeyword(Article(p))
             ELSE /\ news_events' = news_events
                  /\ proc'[p].idx = proc[p].idx + 1]_vars

\* The reply for an article with an alert keyword in its title was
\* malformed, and the event stored for it is marked critical.
MalformedReplyWitness ==
  \E p \in DOMAIN isRunning :
    /\ proc[p].pc = "sleep"
    /\ proc[p].parse = "malformed"
    /\ proc[p].classification = SafeDefault
    /\ Last(news_events).url = Article(p).url
    /\ Last(news_events).category = "other"
    /\ Last(news_events).impact_score = Num(30)
    /\ Last(news_events).is_critical

\* C7: tension bounds.  Every value applyTensionDelta has returned to the
\* cycle (the running value of an invocation past its first insert, which
\* starts from a sample in [0,100]) lies in [0,100], and so does every
\* TensionSample in the store.
TensionBounds ==
  /\ \A i \in 1..Len(tension_history) : tension_history[i] \in 0..10000
  /\ \A p \in DOMAIN isRunning :
       proc[p].pc \in (LoopLabels \cup PostLoopLabels) =>
          /\ ~IsNaN(proc[p].currentTension)
          /\ Val(proc[p].currentTension) \in 0..10000

\* C8: per-article failure isolation.  No step taken inside the article
\* loop ends the cycle or changes the batch: the step stays on its article
\* or moves to the next one, and to the post-loop steps after the last one;
\* the post-loop steps are reached only with every article gone through.
FailureIsolation ==
  /\ [](\A p \in DOMAIN isRunning :
          proc[p].pc \in PostLoopLabels => proc[p].idx = Len(proc[p].articles) + 1)
  /\ [][\A p \in DOMAIN isRunning :
          (proc[p].pc \in LoopLabels /\ proc'[p] # proc[p]) =>
             /\ isRunning'[p]
             /\ proc'[p].articles = proc[p].articles
             /\ \/ /\ proc'[p].idx = proc[p].idx
                   /\ proc'[p].pc \in LoopLabels
                \/ /\ proc'[p].idx = proc[p].idx + 1
                   /\ proc'[p].pc = IF proc[p].idx < Len(proc[p].articles)
                                    THEN "lookup" ELSE "saveTension"]_vars

\* The first article of a batch failed, and the second one has been stored.
FailureIsolationWitness ==
  \E p \in DOMAIN isRunning :
    /\ proc[p].pc = "sleep"
    /\ proc[p].idx = 2
    /\ Len(news_events) = 1
    /\ news_events[1].url = proc[p].articles[2].url

\* C9 as stated: every cycle whose fetch returned at least one article (it
\* ended past the empty-batch return) has added exactly one TensionSample.
ExactlyOneSamplePerCycle ==
  \A p \in DOMAIN isRunning :
    (~Running(p) /\ meter[p].exit \in {"completed", "fatal"}) =>
       Len(tension_history) = meter[p].samplesBefore + 1

\* C9, amended: a cycle issues at most one TensionSample insert, after the
\* article loop and before the alerts, and a cycle that completes has
\* issued exactly one.  The insert carries the final accumulated value, and
\* the cycle adds that one sample or, when the store fails or rejects the
\* insert, none.
OneSampleInsertPerCycle ==
  /\ [](\A p \in DOMAIN isRunning :
          /\ Running(p) =>
               meter[p].tensionWrites =
                 IF proc[p].pc \in (PostLoopLabels \ {"saveTension"}) THEN 1 ELSE 0
          /\ meter[p].exit = "completed" => meter[p].tensionWrites = 1
          /\ meter[p].exit = "empty" => meter[p].tensionWrites = 0
          /\ (Running(p) \/ meter[p].exit # "none") =>
               /\ Len(tension_history) >= meter[p].samplesBefore
               /\ Len(tension_history) <= meter[p].samplesBefore + meter[p].tensionWrites)
  /\ [][\A p \in DOMAIN isRunning :
          IF proc[p].pc = "saveTension" /\ meter'[p].tensionWrites # meter[p].tensionWrites
          THEN /\ proc[p].idx = Len(proc[p].articles) + 1
               /\ \/ tension_history' = tension_history
                  \/ /\ ~IsNaN(proc[p].currentTension)
                     /\ tension_history' =
                          Append(tension_history, Val(proc[p].currentTension))
          ELSE tension_history' = tension_history]_vars

\* A cycle has completed and has added one sample, which differs from the
\* sample it started from.
OneSampleWitness ==
  \E p \in DOMAIN isRunning :
    /\ ~Running(p)
    /\ meter[p].exit = "completed"
    /\ meter[p].tensionWrites = 1
    /\ Len(tension_history) = meter[p].samplesBefore + 1
    /\ Last(tension_history) # tension_history[Len(tension_history) - 1]

\* C10: a cycle whose fetch returns zero articles goes straight back to
\* IDLE.  The step on which the fetch returns either ends the cycle (the
\* batch is empty: the guard is released, no table and no message changes,
\* and the cycle has read no tension sample, written none and dispatched no
\* alert) or goes on to read the tension with a non-empty batch.
EmptyFetchDoesNothing ==
  [][\A p \in DOMAIN isRunning :
       (proc[p].pc = "fetch" /\ proc'[p].pc # "fetch") =>
          \/ /\ proc'[p] = Idle
             /\ ~isRunning'[p]
             /\ UNCHANGED store
             /\ meter'[p].exit = "empty"
             /\ meter'[p].fetches = 1
             /\ meter'[p].tensionReads = 0
             /\ meter'[p].tensionWrites = 0
             /\ meter'[p].dispatched = 0
          \/ /\ proc'[p].pc = "readTension"
             /\ Len(proc'[p].articles) > 0
             /\ isRunning'[p]]_vars

\* A cycle ended on an empty batch although the store already holds an
\* event, and the store is as the cycle found it.
EmptyFetchWitness ==
  \E p \in DOMAIN isRunning :
    /\ ~Running(p)
    /\ ~isRunning[p]
    /\ meter[p].exit = "empty"
    /\ Len(news_events) > 0
    /\ Len(tension_history) = meter[p].samplesBefore

AlertsOf(rows, eventId) == {a \in 1..Len(rows) : rows[a].event_id = eventId}

EventsWithId(events, id) == {e \in 1..Len(events) : events[e].id = id}

\* C11: no alert is processed twice.  In every reachable state, whatever
\* cycles have run, no two Alert rows reference the same NewsEvent, and the
\* event_id of every Alert is the id of exactly one stored NewsEvent.
OneAlertPerEvent ==
  /\ \A e \in 1..Len(news_events) :
       Cardinality(AlertsOf(alerts, news_events[e].id)) <= 1
  /\ \A a \in 1..Len(alerts) :
       Cardinality(EventsWithId(news_events, alerts[a].event_id)) = 1

\* Two alerts are stored for two different events, and a later cycle has
\* fetched the same articles again.
OneAlertPerEventWitness ==
  /\ Len(alerts) = 2
  /\ alerts[1].event_id # alerts[2].event_id
  /\ \E p \in DOMAIN isRunning :
       /\ proc[p].pc = "saveTension"
       /\ Len(proc[p].articles) = 2
       /\ meter[p].samplesBefore > 1

\* C12: a newly persisted NewsEvent is queued for alerting if and only if
\* the gateway's is_critical flag is true, or shouldTriggerAlert holds for
\* the event, or the classification's impact score is at least 8.  The step
\* that stores an event appends it to the queue exactly in that case, and
\* no other step adds to the queue.
QueuedIffAlertWorthy ==
  [][\A p \in DOMAIN isRunning :
       IF proc[p].pc = "insert" /\ proc'[p].pc = "sleep"
       THEN LET e == Last(news_events')
                c == proc[p].classification
                worthy == \/ c.is_critical
                          \/ shouldTriggerAlert(e)
                          \/ (~IsNaN(c.impact_score) /\ Val(c.impact_score) >= 80)
            IN  /\ Len(news_events') = Len(news_events) + 1
                /\ proc'[p].alertsToFire =
                     IF worthy
                     THEN Append(proc[p].alertsToFire,
                                 [event |-> e, score |-> c.impact_score])
                     ELSE proc[p].alertsToFire
       ELSE \/ proc'[p].alertsToFire = proc[p].alertsToFire
            \/ proc'[p].alertsToFire = <<>>]_vars

\* Two events have been stored in one cycle: the first, with score 7.9, no
\* flag and no alert keyword, is not queued; the second, with the same
\* score and no flag, is queued for the keyword in its title alone.
QueuedIffAlertWorthyWitness ==
  \E p \in DOMAIN isRunning :
    /\ proc[p].pc = "sleep"
    /\ Len(news_events) = 2
    /\ Len(proc[p].alertsToFire) = 1
    /\ proc[p].alertsToFire[1].event = news_events[2]
    /\ proc[p].classification = Object("diplomatic", Num(79), FALSE)
    /\ news_events[1].impact_score = Num(79)
    /\ ~news_events[1].is_critical

EventWithId(events, id) == events[CHOOSE e \in EventsWithId(events, id) : TRUE]

InRange(score) == ~IsNaN(score) /\ Val(score) \in 0..100

\* C14: whatever impact score the gateway returns, the score the cycle uses
\* lies in [0,10].  Once the tension delta of an article has been computed
\* (the insert is issued or done) the score of its classification is a
\* number in [0,10], and so is the score of every queued alert, from which
\* the alert decision was made and the severity is derived.
ScoreUsedInRange ==
  \A p \in DOMAIN isRunning :
    /\ proc[p].pc \in {"insert", "sleep"} =>
         InRange(proc[p].classification.impact_score)
    /\ \A a \in 1..Len(proc[p].alertsToFire) : InRange(proc[p].alertsToFire[a].score)

\* C15: fetcher fallback.  In every pass of the keyword loop made with the
\* secondary provider's key present, when the primary provider failed at
\* transport level, returned an empty result or has no key, the secondary
\* provider was queried for that keyword.
FallbackQueried ==
  \A p \in DOMAIN isRunning :
    \A k \in 1..Len(proc[p].calls) :
      (env.GNEWS_API_KEY /\ proc[p].calls[k].primary \in {"throw", "empty", "none"})
         => proc[p].calls[k].secondary # "none"

\* C16: a provider error on one keyword does not abort fetchLatestNews.
\* The loop has made one pass per keyword walked so far, each with a
\* request to a provider whose key is present; the fetch hands over only
\* after the last keyword, never by an exception, and what it hands over
\* contains every article collected by a pass that did not fail.
KeywordErrorIsolated ==
  /\ [](\A p \in DOMAIN isRunning :
          /\ meter[p].exit # "fatal"
          /\ Len(proc[p].calls) = proc[p].kw
          /\ \A k \in 1..Len(proc[p].calls) :
               /\ env.NEWS_API_KEY => proc[p].calls[k].primary # "none"
               /\ (~env.NEWS_API_KEY /\ env.GNEWS_API_KEY) =>
                     proc[p].calls[k].secondary # "none"
               /\ \A i \in 1..Len(proc[p].calls[k].articles) :
                     HasUrl(proc[p].allArticles, proc[p].calls[k].articles[i].url))
  /\ [][\A p \in DOMAIN isRunning :
          (proc[p].pc = "fetch" /\ proc'[p].pc # "fetch") =>
             /\ proc[p].kw = NumKeywords
             /\ Len(proc[p].calls) = NumKeywords
             /\ \/ proc'[p].pc = "readTension" /\ proc'[p].articles = proc[p].allArticles
                \/ /\ proc'[p].pc = "idle" /\ meter'[p].exit = "empty"
                   /\ proc[p].allArticles = <<>>]_vars

\* The request for the first keyword failed at transport level, and the
\* batch handed to the cycle holds the articles of the second keyword.
KeywordErrorWitness ==
  \E p \in DOMAIN isRunning :
    /\ proc[p].pc = "readTension"
    /\ Len(proc[p].calls) = NumKeywords
    /\ proc[p].calls[1].threw
    /\ Len(proc[p].calls[2].articles) > 0
    /\ proc[p].articles = proc[p].calls[2].articles

RECURSIVE Collected(_, _)
Collected(calls, k) ==
  IF k > Len(calls) THEN <<>> ELSE calls[k].articles \o Collected(calls, k + 1)

RECURSIVE KeepFirst(_, _)
KeepFirst(seq, i) ==
  IF i > Len(seq) THEN <<>>
  ELSE (IF \E j \in 1..(i - 1) : seq[j].url = seq[i].url THEN <<>> ELSE <<seq[i]>>)
       \o KeepFirst(seq, i + 1)

\* C17: the batch of fetchLatestNews holds no two articles with the same
\* URL, every article in it has a title and a URL, and of the articles
\* returned for one URL the first one is kept: the map, and the batch
\* handed over, is the sequence of first occurrences, by URL, of what the
\* passes returned, in the order returned.
BatchKeepsFirstPerUrl ==
  \A p \in DOMAIN isRunning :
    /\ \A i, j \in 1..Len(proc[p].allArticles) :
         proc[p].allArticles[i].url = proc[p].allArticles[j].url => i = j
    /\ \A i \in 1..Len(proc[p].allArticles) :
         proc[p].allArticles[i].title # "" /\ proc[p].allArticles[i].url # 0
    /\ proc[p].allArticles = KeepFirst(Collected(proc[p].calls, 1), 1)
    /\ \A k \in 1..Len(proc[p].calls) :
         \A i \in 1..Len(proc[p].calls[k].articles) :
           proc[p].calls[k].articles[i].title # "" /\ proc[p].calls[k].articles[i].url # 0
    /\ proc[p].pc = "readTension" => proc[p].articles = proc[p].allArticles

\* Two keywords returned the same URL with different titles, and the batch
\* handed to the cycle holds the article of the first keyword.
BatchKeepsFirstWitness ==
  \E p \in DOMAIN isRunning :
    /\ proc[p].pc = "readTension"
    /\ proc[p].calls[1].articles = <<[url |-> 1, title |-> "A", description |-> ""]>>
    /\ proc[p].calls[2].articles = <<[url |-> 2, title |-> "A", description |-> ""],
                                     [url |-> 1, title |-> "B", description |-> ""]>>
    /\ proc[p].articles = <<[url |-> 1, title |-> "A", description |-> ""],
                            [url |-> 2, title |-> "A", description |-> ""]>>

Messages(alertId, to) == {i \in 1..Len(sent) : sent[i].alert = alertId /\ sent[i].to = to}

Subscribers == {ProUsersQuery[i].id : i \in 1..Len(ProUsersQuery)}

FanningOut(alertId) ==
  \E p \in DOMAIN isRunning : proc[p].pc = "notify" /\ proc[p].alert = alertId

\* C18: per-recipient isolation.  A step of the fan-out sends to the
\* subscriber it is at and, whatever the outcome of that send, goes on to
\* the next subscriber of the list; once the fan-out of an alert is over,
\* every eligible subscriber has had a delivery attempt for it.
RecipientIsolation ==
  /\ [](\A a \in 1..Len(alerts) :
          ((\E u \in Subscribers : Messages(a, u) # {}) /\ ~FanningOut(a)) =>
             \A u \in Subscribers : Messages(a, u) # {})
  /\ [][\A p \in DOMAIN isRunning :
          (proc[p].pc = "notify" /\ proc'[p] # proc[p]) =>
             /\ Len(sent') = Len(sent) + 1
             /\ Last(sent').alert = proc[p].alert
             /\ Last(sent').to = proc[p].proUsers[proc[p].uidx].id
             /\ proc[p].uidx < Len(proc[p].proUsers) =>
                  /\ proc'[p].pc = "notify"
                  /\ proc'[p].uidx = proc[p].uidx + 1
                  /\ proc'[p].proUsers = proc[p].proUsers
                  /\ proc'[p].alert = proc[p].alert]_vars

\* The send to the first subscriber failed and the second subscriber has
\* been sent the same alert.
RecipientIsolationWitness ==
  \E i, j \in 1..Len(sent) :
    /\ i < j
    /\ sent[i].alert = sent[j].alert
    /\ sent[i].to = 1 /\ ~sent[i].delivered
    /\ sent[j].to = 5 /\ sent[j].delivered

\* C19: at-most-once delivery.  In every reachable state, whatever cycles
\* have run, every message sent belongs to a stored alert, and for each
\* alert the global channel (recipient 0) has been sent at most one
\* message and each subscriber at most one personal message.
AtMostOnceDelivery ==
  /\ \A i \in 1..Len(sent) : sent[i].alert \in 1..Len(alerts)
  /\ \A a \in 1..Len(alerts) :
       \A to \in {0} \cup {Users[u].id : u \in 1..Len(Users)} :
          Cardinality(Messages(a, to)) <= 1

\* Two alerts have each been sent to the global channel and to both
\* subscribers, and a second cycle has gone through the same articles.
AtMostOnceWitness ==
  /\ Len(alerts) = 2
  /\ \A a \in 1..2 : \A to \in {0} \cup Subscribers : Cardinality(Messages(a, to)) = 1
  /\ \E p \in DOMAIN isRunning :
       /\ proc[p].pc = "saveTension"
       /\ Len(proc[p].articles) = 2
       /\ meter[p].samplesBefore > 1

Distance(a, b) == IF a >= b THEN a - b ELSE b - a

\* C20: mean reversion with zero delta.  For every current value in [0,100]
\* at two decimals, applyTensionDelta(current, 0) is no farther from 60
\* than current is, and applyTensionDelta(60, 0) = 60.
MeanReversion ==
  \A i \in 2..Len(tension_history) :
    /\ Distance(tension_history[i], 6000) <= Distance(tension_history[i - 1], 6000)
    /\ tension_history[i - 1] = 6000 => tension_history[i] = 6000

\* The function has been applied to 100 with a zero delta and has returned
\* 99.2.
MeanReversionWitness ==
  /\ Len(tension_history) = 2
  /\ tension_history[1] = 10000
  /\ tension_history[2] = 9920

\* The weight the tension engine gives a category.
Weight(category) ==
  CASE category = "military"   -> 8
    [] category = "nuclear"    -> 6
    [] category = "economic"   -> 5
    [] category = "cyber"      -> 4
    [] category = "diplomatic" -> 3
    [] category = "other"      -> 1

HasKeyword(title, keywords) == \E kw \in keywords : includes(toLowerCase(title), kw)

\* The product weight x (0.5 + score/10) x multipliers, in units of 1/10000.
Product(category, tenths, title) ==
  Weight(category) * (50 + tenths)
    * (IF HasKeyword(title, CRITICAL_KEYWORDS) THEN 13 ELSE 10)
    * (IF HasKeyword(title, DEESCALATION_KEYWORDS) THEN -5 ELSE 10)

Abs(n) == IF n < 0 THEN -n ELSE n

LevelThresholds ==
  response.status = 200 =>
    LET v == response.value
        l == response.level
    IN  /\ v \in 0..10000
        /\ l \in {"critical", "high", "moderate", "low", "stable"}
        /\ l = "critical" <=> v >= 9000
        /\ l = "high"     <=> (v >= 7500 /\ v < 9000)
        /\ l = "moderate" <=> (v >= 5500 /\ v < 7500)
        /\ l = "low"      <=> (v >= 3500 /\ v < 5500)
        /\ l = "stable"   <=> v < 3500
        /\ v = 9200 => l = "critical"
        /\ v = 7500 => l = "high"
        /\ v = 6000 => l = "moderate"

\* The route has answered for a sample of exactly 75.00, a lower bound.
LevelWitness ==
  /\ response.status = 200
  /\ response.value = 7500
  /\ response.level = "high"
  /\ tension_history = <<7500>>

\* The lowercased text of an article in which the alert keywords are sought.
AlertText(row) == toLowerCase(row.title \o " " \o row.description)

\* C23: for an article the gateway did not flag, shouldTriggerAlert is true
\* exactly when the score is at least 8 or the lowercased title and
\* description contain an alert keyword: score 9 with 'routine statement'
\* is true, score 5 with 'ceasefire talks resume' and no description false.
AlertExactlyOnScoreOrKeyword ==
  \A p \in DOMAIN isRunning :
    (proc[p].pc = "insert" /\ ~proc[p].classification.is_critical) =>
      LET row == proc[p].row
          tenths == Val(row.impact_score)
      IN  /\ row.is_critical <=>
               \/ tenths >= 80
               \/ \E kw \in ALERT_KEYWORDS : includes(AlertText(row), kw)
          /\ (tenths = 90 /\ row.title = "routine statement") => row.is_critical
          /\ (tenths = 50 /\ row.title = "ceasefire talks resume"
                /\ row.description = "") => ~row.is_critical

\* A low score whose only alert keyword is in the description.
AlertKeywordWitness ==
  \E p \in DOMAIN isRunning :
    /\ proc[p].pc = "insert"
    /\ ~proc[p].classification.is_critical
    /\ proc[p].row.impact_score = Num(50)
    /\ proc[p].row.title = "ceasefire talks resume"
    /\ proc[p].row.description = "Explosion near port"
    /\ proc[p].row.is_critical

\* C24: the tension sample is written only once the article loop has been
\* left; no Alert row is written and no message is sent before the write of
\* the sample has been issued in that cycle; and the queued alerts are
\* dispatched one after the other in queue order.
SampleThenAlertsInOrder ==
  [][\A p \in DOMAIN isRunning :
       /\ tension_history' # tension_history =>
            /\ proc[p].pc = "saveTension"
            /\ proc[p].idx > Len(proc[p].articles)
       /\ (alerts' # alerts \/ sent' # sent) =>
            /\ meter[p].tensionWrites = 1
            /\ proc[p].pc \in PostLoopLabels \ {"saveTension"}
       /\ alerts' # alerts =>
            /\ Len(alerts') = Len(alerts) + 1
            /\ Last(alerts').event_id = proc[p].alertsToFire[proc[p].aidx].event.id
       /\ proc'[p].aidx # proc[p].aidx =>
            \/ proc'[p].aidx = proc[p].aidx + 1
            \/ proc'[p].pc = "idle"]_vars

\* The second alert of a queue of two is about to be dispatched, after the
\* sample write and after the first alert's row.
SampleThenAlertsWitness ==
  \E p \in DOMAIN isRunning :
    /\ proc[p].pc = "createAlert"
    /\ proc[p].aidx = 2
    /\ Len(proc[p].alertsToFire) = 2
    /\ meter[p].tensionWrites = 1
    /\ Len(alerts) = 1
    /\ alerts[1].event_id = proc[p].alertsToFire[1].event.id

\* C25: when the read of the most recent TensionSample yields a row, the
\* running tension the cycle starts with is that row's value, for every
\* stored value of [0,100], 0 included.
StartsFromLatestSample ==
  [][\A p \in DOMAIN isRunning :
       (proc[p].pc = "readTension" /\ proc'[p].pc = "lookup"
          /\ ~IsNaN(proc'[p].latestTension)) =>
            /\ proc'[p].latestTension = Num(Last(tension_history))
            /\ proc'[p].currentTension = Num(Last(tension_history))]_vars

\* applyTensionDelta folded over the deltas of events[i..], in order.
RECURSIVE FoldDeltas(_, _, _)
FoldDeltas(current, events, i) ==
  IF i > Len(events) THEN current
  ELSE FoldDeltas(applyTensionDelta(current, events[i].tension_delta), events, i + 1)

\* The NewsEvents a cycle has persisted so far, in a run whose store held
\* none before it.
NewEvents == news_events

DuplicateKeyIsBenign ==
  [][\A p \in DOMAIN isRunning :
       (proc[p].pc = "insert" /\ proc'[p].insertError = "23505") =>
          /\ news_events' = news_events
          /\ proc'[p].currentTension = proc[p].currentTension
          /\ proc'[p].alertsToFire = proc[p].alertsToFire
          /\ log' = log
          /\ isRunning'[p]
          /\ proc'[p].articles = proc[p].articles
          /\ proc'[p].idx = proc[p].idx + 1
          /\ proc'[p].pc = IF proc[p].idx < Len(proc[p].articles)
                           THEN "lookup" ELSE "saveTension"]_vars

\* The insert of the first of two articles has met a row with the same URL
\* (the lookup before it had failed), and the loop is at the second article.
DuplicateKeyWitness ==
  \E p \in DOMAIN isRunning :
    /\ proc[p].pc = "lookup"
    /\ proc[p].idx = 2
    /\ proc[p].insertError = "23505"
    /\ \E e \in 1..Len(news_events) : news_events[e].url = proc[p].articles[1].url
    /\ log = <<>>

\* The step p takes is a failure of the article it is at: the insert was
\* refused for a reason other than a duplicate key, the insert threw, or
\* the step that prepares the insert threw.
ArticleFailed(p) ==
  \/ proc[p].pc = "insert" /\ proc'[p].insertError \in {"23514", "failed"}
  \/ proc[p].pc = "insert" /\ proc'[p].insertError = "" /\ proc'[p].pc # "insert"
  \/ proc[p].pc = "translate" /\ proc'[p].pc \notin {"translate", "insert"}

\* C28: every failure of an article adds one error entry carrying the
\* article's URL to the log, an insert refused for a reason other than a
\* duplicate key included.
ArticleFailureIsLogged ==
  [][\A p \in DOMAIN isRunning :
       ArticleFailed(p) =>
          /\ Len(log') = Len(log) + 1
          /\ Last(log').url = Article(p).url]_vars

\* A classification that has the fields of the schema: an object whose
\* category is one of the six and whose impact_score is a number.
SchemaValid(classification) ==
  /\ classification.kind = "object"
  /\ classification.category \in Categories
  /\ ~IsNaN(classification.impact_score)
  /\ classification.is_critical \in BOOLEAN

\* C29: the classification the cycle uses for an article is never one that
\* fails the schema: a reply that parses but is not an object, has a
\* category outside the six, or has no numeric impact_score is replaced by
\* the safe default, which is what the article is persisted with.
SchemaFailureUsesSafeDefault ==
  \A p \in DOMAIN isRunning :
    proc[p].pc \in {"translate", "insert"} =>
      \/ SchemaValid(proc[p].classification)
      \/ proc[p].classification = SafeDefault

\* The four per-language titles of a row are the article's own title.
TitlesAreOriginal(row, title) ==
  /\ row.title_en = title
  /\ row.title_pt = title
  /\ row.title_es = title
  /\ row.title_ar = title
  /\ row.title_fa = title

\* C30: when the translation call fails or its reply does not parse, the
\* row prepared for the article carries the original title in all four
\* languages, the insert is issued as for any other article, and the row
\* the store accepts is persisted with those titles.
TranslationFallsBackToTitle ==
  [][\A p \in DOMAIN isRunning :
       /\ (proc[p].pc = "translate" /\ proc'[p].translationParse = "malformed") =>
             /\ proc'[p].pc = "insert"
             /\ TitlesAreOriginal(proc'[p].row, Article(p).title)
             /\ news_events' = news_events
       /\ (proc[p].pc = "insert" /\ proc[p].translationParse = "malformed"
             /\ proc'[p].insertError = "none") =>
             /\ proc'[p].pc = "sleep"
             /\ Len(news_events') = Len(news_events) + 1
             /\ Last(news_events').url = Article(p).url
             /\ TitlesAreOriginal(Last(news_events'), Article(p).title)]_vars

\* An article whose translation did not parse has been persisted under its
\* original title.
TranslationFallbackWitness ==
  \E p \in DOMAIN isRunning :
    /\ proc[p].pc = "sleep"
    /\ proc[p].translationParse = "malformed"
    /\ Last(news_events).url = Article(p).url
    /\ Last(news_events).title_pt = "missile strike reported"
    /\ Last(news_events).title_fa = "missile strike reported"

\* C31: a call to a search provider never raises on a non-success status or
\* on a malformed payload (a body that is not JSON, a JSON object without a
\* list of articles): it returns an empty list.
ProviderCallNeverRaises ==
  \A p \in DOMAIN isRunning :
    \A k \in 1..Len(proc[p].calls) :
      LET call == proc[p].calls[k]
      IN  /\ call.primaryReply \in {"http", "text", "nolist"} => call.primary = "empty"
          /\ call.secondaryReply \in {"http", "text", "nolist"} => call.secondary = "empty"

\* C32: within one cycle the inter-article delay elapses between any two
\* consecutive calls of classifyNewsEvent, whatever happened to the article
\* of the earlier call: no call is made while the last one has not been
\* followed by the delay.
DelayBetweenClassifications ==
  [][\A p \in DOMAIN isRunning :
       (proc[p].pc = "classify" /\ proc'[p].pc = "translate") =>
          meter[p].sinceClassify # "called"]_vars

\* The article p is at has a row in news_events.
Stored(p) == \E e \in 1..Len(news_events) : news_events[e].url = Article(p).url

\* C33: an article whose URL is already stored is a no-op: no step of the
\* loop taken for it is a classification call or a translation call, and
\* none changes the NewsEvents, the running tension or the alert queue.
StoredArticleIsNoOp ==
  [][\A p \in DOMAIN isRunning :
       (proc[p].pc \in LoopLabels /\ Stored(p) /\ proc'[p].pc # "idle") =>
          /\ proc'[p].pc \notin {"classify", "translate", "insert"}
          /\ news_events' = news_events
          /\ proc'[p].currentTension = proc[p].currentTension
          /\ proc'[p].alertsToFire = proc[p].alertsToFire]_vars

\* C34: whenever a cycle whose article loop has finished returns to idle,
\* every entry of its alert queue has been handed to processAlert exactly
\* once, whatever became of the write of the sample.
NoQueuedAlertLost ==
  [][\A p \in DOMAIN isRunning :
       (proc[p].pc \in PostLoopLabels /\ proc'[p].pc = "idle") =>
          /\ proc[p].aidx = Len(proc[p].alertsToFire)
          /\ meter'[p].dispatched = Len(proc[p].alertsToFire)]_vars

\* C35: a message about an event goes to the global channel or to a
\* subscriber only once the Alert row of that event is in the store; when
\* the insert of the Alert row fails nothing is sent for the event and the
\* dispatch goes on with the next queue entry.
NotificationsFollowPersistence ==
  /\ [](\A i \in 1..Len(sent) : \E a \in 1..Len(alerts) : alerts[a].id = sent[i].alert)
  /\ [][\A p \in DOMAIN isRunning :
          /\ sent' # sent =>
               /\ proc[p].pc \in {"sendGlobal", "notify"}
               /\ Last(sent').alert = proc[p].alert
               /\ \E a \in 1..Len(alerts) :
                    /\ alerts[a].id = proc[p].alert
                    /\ alerts[a].event_id = AlertData(p).event.id
          /\ (proc[p].pc = "createAlert" /\ proc'[p].pc # "createAlert"
                /\ alerts' = alerts) =>
               /\ sent' = sent
               /\ \/ proc'[p].pc = "createAlert" /\ proc'[p].aidx = proc[p].aidx + 1
                  \/ /\ proc'[p].pc = "idle"
                     /\ proc[p].aidx = Len(proc[p].alertsToFire)
                     /\ meter'[p].exit = "completed"]_vars

\* The Alert row of the first queue entry was not stored, nothing was sent
\* for it, and the second entry has its row and its channel message.
NotificationsFollowWitness ==
  \E p \in DOMAIN isRunning :
    /\ proc[p].pc = "queryUsers"
    /\ proc[p].aidx = 2
    /\ Len(alerts) = 1
    /\ alerts[1].event_id = proc[p].alertsToFire[2].event.id
    /\ Len(sent) = 1
    /\ sent[1].alert = alerts[1].id

\* The users row with the given id.
UserWithId(id) == CHOOSE u \in {Users[i] : i \in 1..Len(Users)} : u.id = id

\* C36: a personal alert message is only ever sent to a user who is on the
\* pro plan, has personal notifications enabled and has a chat id.
OnlyEligibleSubscribersNotified ==
  \A i \in 1..Len(sent) :
    sent[i].to # 0 =>
      /\ \E k \in 1..Len(Users) : Users[k].id = sent[i].to
      /\ UserWithId(sent[i].to).plan = "pro"
      /\ UserWithId(sent[i].to).alert_telegram_enabled
      /\ UserWithId(sent[i].to).telegram_chat_id

\* Both eligible users have been sent the message of an alert, and nobody
\* else has.
OnlyEligibleWitness ==
  /\ \E i \in 1..Len(sent) : sent[i].to = 1
  /\ \E i \in 1..Len(sent) : sent[i].to = 5
  /\ \A i \in 1..Len(sent) : sent[i].to \in {0, 1, 5}


(***************************************************************************)
(* Two processes, each with its own isRunning flag, running cycles against  *)
(* the same store.  Every article is classified as a military event that    *)
(* needs an alert, so that both cycles try to persist and to alert.         *)
(***************************************************************************)
RaceProcs == {1, 2}

RaceGateway ==
  [classify |-> {Parsed(Object("military", Num(100), TRUE))},
   translate |-> {"translated"}, telegram |-> {"ok"},
   provider |-> ProviderReplies, store |-> {"ok"}]

RaceInit ==
  /\ isRunning = [p \in RaceProcs |-> FALSE]
  /\ proc = [p \in RaceProcs |-> Idle]
  /\ news_events = <<>>
  /\ tension_history \in SeedHistories
  /\ alerts = <<>>
  /\ sent = <<>>
  /\ env \in EnvConfigs
  /\ gateway = RaceGateway
  /\ cyclesLeft = Cardinality(RaceProcs)
  /\ dropped = 0
  /\ meter = [p \in RaceProcs |-> NoMeter]
  /\ log = <<>>
  /\ response = NoResponse
  /\ NoWeb

RaceNext ==
  \/ \E p \in DOMAIN isRunning : RunNewsCycle(p)
  \/ \E p \in DOMAIN isRunning : FetchLatestNews(p)
  \/ \E p \in DOMAIN isRunning : ReadTension(p)
  \/ \E p \in DOMAIN isRunning : LookupExisting(p)
  \/ \E p \in DOMAIN isRunning : Classify(p)
  \/ \E p \in DOMAIN isRunning : Translate(p)
  \/ \E p \in DOMAIN isRunning : InsertEvent(p)
  \/ \E p \in DOMAIN isRunning : Sleep(p)
  \/ \E p \in DOMAIN isRunning : SaveTension(p)
  \/ \E p \in DOMAIN isRunning : CreateAlert(p)
  \/ \E p \in DOMAIN isRunning : SendTelegramAlert(p)
  \/ \E p \in DOMAIN isRunning : QueryProUsers(p)
  \/ \E p \in DOMAIN isRunning : NotifyUser(p)

RaceSpec == RaceInit /\ [][RaceNext]_vars

\* C37: with two processes running cycles concurrently against one store,
\* no URL has more than one NewsEvent or more than one Alert, and the delta
\* of a persisted event is applied to the running tension of the process
\* whose insert stored it, at that step, and of no other process; a process
\* whose insert was rejected leaves its running tension as it was.
OneEventAndAlertPerUrl ==
  /\ \A i, j \in 1..Len(news_events) :
       news_events[i].url = news_events[j].url => i = j
  /\ \A i, j \in 1..Len(alerts) :
       alerts[i].event_id = alerts[j].event_id => i = j
  /\ \A i \in 1..Len(alerts) : alerts[i].event_id \in 1..Len(news_events)

DeltaAppliedByInserter ==
  /\ news_events' # news_events =>
       \E p \in DOMAIN proc :
         /\ proc[p].pc = "insert"
         /\ news_events' = Append(news_events, WithId(proc[p].row, Len(news_events) + 1))
         /\ proc'[p].currentTension =
              applyTensionDelta(proc[p].currentTension, proc[p].row.tension_delta)
         /\ \A q \in DOMAIN proc \ {p} : proc'[q] = proc[q]
  /\ news_events' = news_events =>
       \A p \in DOMAIN proc :
         (proc[p].pc \in LoopLabels /\ proc'[p].pc # "idle") =>
           proc'[p].currentTension = proc[p].currentTension

ConcurrentCyclesPersistOnce ==
  []OneEventAndAlertPerUrl /\ [][DeltaAppliedByInserter]_vars

\* Both processes tried to insert the same URL: one stored it, applied the
\* delta and queued the alert, the other was rejected and applied nothing.
ConcurrentCyclesWitness ==
  /\ Len(news_events) = 1
  /\ \E p, q \in DOMAIN proc :
       /\ p # q
       /\ proc[p].alertsToFire # <<>>
       /\ proc[p].currentTension # proc[p].latestTension
       /\ proc[q].insertError = "23505"
       /\ proc[q].alertsToFire = <<>>
       /\ proc[q].currentTension = proc[q].latestTension
       /\ proc[q].pc \in LoopLabels \cup PostLoopLabels


(***************************************************************************)
(* routes/stripe.js, POST /api/stripe/webhook.  One action per await of the *)
(* handler; a rejected promise outside the try block reaches the error      *)
(* middleware through asyncHandler, which answers 500.                      *)
(***************************************************************************)
cron == <<isRunning, proc, news_events, tension_history, alerts, sent,
          dropped, meter, log, response>>

\* What Stripe posts: an event, with or without a valid signature header.
Deliveries ==
  [signature : {"missing", "invalid", "valid"}, id : EventIds]

\* handleStripeEvent resolves, or one of its store calls rejects.
HandlerOutcomes == {"ok", "throw"}

Respond(r, status) ==
  requests' = [requests EXCEPT ![r] = [NoRequest EXCEPT !.status = status]]

RowOf(id) == {row \in stripe_events : row.id = id}

\* Lines 93-106: the signature checks, then the first await.
PostWebhook(r) ==
  /\ requests[r].pc = "idle"
  /\ cyclesLeft > 0
  /\ cyclesLeft' = cyclesLeft - 1
  /\ \E delivery \in Deliveries :
       IF delivery.signature # "valid"
       THEN Respond(r, 400)
       ELSE requests' = [requests EXCEPT ![r] =
                           [NoRequest EXCEPT !.pc = "select", !.event = delivery.id]]
  /\ UNCHANGED <<cron, env, gateway, stripe_events, users, now, handled, accepted>>

\* Lines 109-118: the lookup of the event; an error answer leaves existing
\* undefined.
SelectStripeEvent(r) ==
  /\ requests[r].pc = "select"
  /\ \E outcome \in gateway.store :
       LET existing == outcome = "ok" /\ \E row \in RowOf(requests[r].event) : row.processed
       IN  IF outcome = "throw" THEN Respond(r, 500)
           ELSE IF existing THEN Respond(r, 200)
           ELSE requests' = [requests EXCEPT ![r].pc = "upsert"]
  /\ UNCHANGED <<cron, env, gateway, cyclesLeft, stripe_events, users, now, handled, accepted>>

\* Lines 121-125: the upsert names id, type and data only, so that an
\* existing row keeps its processed column.
UpsertStripeEvent(r) ==
  /\ requests[r].pc = "upsert"
  /\ \E outcome \in gateway.store :
       IF outcome = "throw"
       THEN Respond(r, 500) /\ UNCHANGED stripe_events
       ELSE /\ requests' = [requests EXCEPT ![r].pc = "handle"]
            /\ stripe_events' =
                 IF outcome = "ok" /\ RowOf(requests[r].event) = {}
                 THEN stripe_events \cup {[id |-> requests[r].event, processed |-> FALSE]}
                 ELSE stripe_events
  /\ UNCHANGED <<cron, env, gateway, cyclesLeft, users, now, handled, accepted>>

\* Lines 128-129 and 137-141: handleStripeEvent.
HandleStripeEvent(r) ==
  /\ requests[r].pc = "handle"
  /\ \E outcome \in HandlerOutcomes :
       IF outcome = "throw"
       THEN Respond(r, 500) /\ UNCHANGED handled
       ELSE /\ requests' = [requests EXCEPT ![r].pc = "mark"]
            /\ handled' = [handled EXCEPT ![requests[r].event] = @ + 1]
  /\ UNCHANGED <<cron, env, gateway, cyclesLeft, stripe_events, users, now, accepted>>

\* Lines 131-135 and 143: the update inside the try block, then the reply.
MarkProcessed(r) ==
  /\ requests[r].pc = "mark"
  /\ \E outcome \in gateway.store :
       IF outcome = "throw"
       THEN Respond(r, 500) /\ UNCHANGED stripe_events
       ELSE /\ Respond(r, 200)
            /\ stripe_events' =
                 IF outcome = "ok"
                 THEN {IF row.id = requests[r].event
                       THEN [row EXCEPT !.processed = TRUE] ELSE row :
                         row \in stripe_events}
                 ELSE stripe_events
  /\ UNCHANGED <<cron, env, gateway, cyclesLeft, users, now, handled, accepted>>

WebhookInit == InitWith(SeedHistories, MaxRequests, {MainGateway})

WebhookNext ==
  \/ \E r \in ReqIds : PostWebhook(r)
  \/ \E r \in ReqIds : SelectStripeEvent(r)
  \/ \E r \in ReqIds : UpsertStripeEvent(r)
  \/ \E r \in ReqIds : HandleStripeEvent(r)
  \/ \E r \in ReqIds : MarkProcessed(r)

WebhookSpec == WebhookInit /\ [][WebhookNext]_vars

\* C38: handleStripeEvent completes at most once for each Stripe event id,
\* whatever deliveries of the event arrive and however they interleave; a
\* delivery whose handler failed leaves the event unmarked, and a later
\* delivery of an unmarked event reaches the handler again.
HandledAtMostOnce == \A e \in EventIds : handled[e] <= 1

FailedHandlerNotMarked ==
  \A r \in ReqIds :
    /\ (requests[r].pc = "handle" /\ requests'[r].pc = "idle") =>
         stripe_events' = stripe_events /\ requests'[r].status = 500
    /\ (requests[r].pc = "select" /\ requests'[r].status = 200
          /\ requests'[r].pc = "idle") =>
         \E row \in RowOf(requests[r].event) : row.processed

WebhookIsIdempotent == []HandledAtMostOnce /\ [][FailedHandlerNotMarked]_vars


(***************************************************************************)
(* routes/analysis.js, POST /api/analysis, and incrementAnalysisCount of    *)
(* services/supabase.js.  One action per await.                             *)
(***************************************************************************)
\* The query of the request body, after sanitizeAIQuery.
Queries == {"short", "valid"}

\* analyzeGeopolitical resolves or rejects.
AnalysisOutcomes == {"ok", "throw"}

\* Counter values a user can have reached when the requests arrive.
QuotaCounts == {0, FREE_LIMIT - 1, FREE_LIMIT}

\* Lines 319-335 of incrementAnalysisCount, from the plan test on: either
\* the update is awaited or the function returns false and the route
\* answers 429.
CheckLimit(r, count) ==
  IF requests[r].plan = "pro" \/ count < FREE_LIMIT
  THEN requests' = [requests EXCEPT ![r].pc = "increment", ![r].count = count]
  ELSE Respond(r, 429)

\* Lines 21-37 of the route: a query that is too short is refused, otherwise
\* incrementAnalysisCount is called with the id and plan of req.profile.
PostAnalysis(r) ==
  /\ requests[r].pc = "idle"
  /\ cyclesLeft > 0
  /\ cyclesLeft' = cyclesLeft - 1
  /\ \E query \in Queries, u \in UserIds :
       IF query = "short"
       THEN Respond(r, 400)
       ELSE requests' = [requests EXCEPT ![r] =
                           [NoRequest EXCEPT !.pc = "selectUser", !.user = u,
                                             !.plan = users[u].plan]]
  /\ UNCHANGED <<cron, env, gateway, stripe_events, users, now, handled, accepted>>

\* Lines 299-312: the read of the counter and the test of the window.
SelectUser(r) ==
  /\ requests[r].pc = "selectUser"
  /\ \E outcome \in gateway.store :
       LET user == users[requests[r].user]
       IN  IF outcome = "throw" THEN Respond(r, 500)
           ELSE IF outcome = "error" THEN Respond(r, 429)
           ELSE IF now - user.ai_analyses_reset_at > DAY
           THEN requests' = [requests EXCEPT ![r].pc = "reset", ![r].count = 0,
                                             ![r].at = now]
           ELSE CheckLimit(r, user.ai_analyses_today)
  /\ UNCHANGED <<cron, env, gateway, cyclesLeft, stripe_events, users, now, handled, accepted>>

\* Lines 313-317: the reset of an expired window.  A new window starts when
\* ai_analyses_reset_at is written.
ResetCounter(r) ==
  /\ requests[r].pc = "reset"
  /\ \E outcome \in gateway.store :
       LET u == requests[r].user
       IN  IF outcome = "throw"
           THEN Respond(r, 500) /\ UNCHANGED <<users, accepted>>
           ELSE /\ CheckLimit(r, 0)
                /\ IF outcome = "ok"
                   THEN /\ users' = [users EXCEPT ![u].ai_analyses_today = 0,
                                                  ![u].ai_analyses_reset_at = requests[r].at]
                        /\ accepted' = [accepted EXCEPT ![u] = 0]
                   ELSE UNCHANGED <<users, accepted>>
  /\ UNCHANGED <<cron, env, gateway, cyclesLeft, stripe_events, now, handled>>

\* Lines 321-325 and 331-335: the counter is written as count + 1 and the
\* function returns true, whatever the update answered.
IncrementCounter(r) ==
  /\ requests[r].pc = "increment"
  /\ \E outcome \in gateway.store :
       LET u == requests[r].user
       IN  IF outcome = "throw"
           THEN Respond(r, 500) /\ UNCHANGED <<users, accepted>>
           ELSE /\ requests' = [requests EXCEPT ![r].pc = "analyze"]
                /\ accepted' = [accepted EXCEPT ![u] = @ + 1]
                /\ users' = IF outcome = "ok"
                            THEN [users EXCEPT ![u].ai_analyses_today = requests[r].count + 1]
                            ELSE users
  /\ UNCHANGED <<cron, env, gateway, cyclesLeft, stripe_events, now, handled>>

\* Lines 39-72 of the route: the analysis and the reply.
Analyze(r) ==
  /\ requests[r].pc = "analyze"
  /\ \E outcome \in AnalysisOutcomes :
       Respond(r, IF outcome = "ok" THEN 200 ELSE 500)
  /\ UNCHANGED <<cron, env, gateway, cyclesLeft, stripe_events, users, now, handled, accepted>>

\* Time passes.
Tick ==
  /\ now < MaxNow
  /\ now' = now + 1
  /\ UNCHANGED <<cron, env, gateway, cyclesLeft, stripe_events, users, requests, handled, accepted>>

\* A store that answers every call, so that what the requests do to each
\* other is all that happens.
QuotaGateway == [MainGateway EXCEPT !.store = {"ok"}]

\* A user of either plan who has been allowed some analyses in the current
\* window.
QuotaInit ==
  /\ isRunning = [p \in ProcIds |-> FALSE]
  /\ proc = [p \in ProcIds |-> Idle]
  /\ news_events = <<>>
  /\ tension_history \in SeedHistories
  /\ alerts = <<>>
  /\ sent = <<>>
  /\ env \in EnvConfigs
  /\ gateway = QuotaGateway
  /\ cyclesLeft = MaxRequests
  /\ dropped = 0
  /\ meter = [p \in ProcIds |-> NoMeter]
  /\ log = <<>>
  /\ response = NoResponse
  /\ stripe_events = {}
  /\ \E plan \in {"free", "pro"}, count \in QuotaCounts :
       /\ users = [u \in UserIds |->
                     [plan |-> plan, ai_analyses_today |-> count,
                      ai_analyses_reset_at |-> 0]]
       /\ accepted = [u \in UserIds |-> count]
  /\ requests = [r \in ReqIds |-> NoRequest]
  /\ now = 0
  /\ handled = [e \in EventIds |-> 0]

QuotaNext ==
  \/ \E r \in ReqIds : PostAnalysis(r)
  \/ \E r \in ReqIds : SelectUser(r)
  \/ \E r \in ReqIds : ResetCounter(r)
  \/ \E r \in ReqIds : IncrementCounter(r)
  \/ \E r \in ReqIds : Analyze(r)
  \/ Tick

QuotaSpec == QuotaInit /\ [][QuotaNext]_vars

\* C39: for a user on the free plan, incrementAnalysisCount returns true at
\* most FREE_LIMIT times within one reset window, however the requests of
\* the user interleave, and ai_analyses_today equals the number of requests
\* accepted in the window.
FreeQuotaIsExact ==
  \A u \in UserIds :
    users[u].plan = "free" =>
      /\ accepted[u] <= FREE_LIMIT
      /\ users[u].ai_analyses_today = accepted[u]

====
